---- MODULE Spec2Model ----
(***************************************************************************)
(* Practice Session Engine of the HSK vocabulary client.                   *)
(*                                                                         *)
(* One game component is mounted at a time (App.renderContent switches on  *)
(* viewMode).  Every component keeps its React state in one record; the    *)
(* record of a component that is not mounted is Off.  A handler, together  *)
(* with the effects and memos React runs before the next event, is one     *)
(* action.  Math.random() is a nondeterministic choice.  Strings are       *)
(* sequences of one-character strings, so that trimming, case folding and  *)
(* substring search are computed rather than assumed.  Presentation-only   *)
(* state (showPinyin, card flip animation, speech) is not modelled.        *)
(***************************************************************************)
EXTENDS Integers, Sequences, FiniteSets, TLC

(***************************************************************************)
(* Bounds of the model.                                                    *)
(***************************************************************************)
\* Largest number of words handed to Quiz and Write; Pinyin-reverse, whose
\* menu entry needs four words, gets up to one word more.
MaxSession == 3
\* Largest number of words handed to Sentence-Fill (its questions, each with
\* its own sampled options, are all generated when the mode starts).
MaxSentence == 2
\* Largest number of answers followed in one Speed Challenge session.
MaxAnswers == 2
\* Largest number of characters typed into the Write input, one at a time.
MaxInputLen == 5
\* Longest session list whose every order is followed.
MaxShuffled == 4
\* Largest number of header search edits followed while one game is mounted.
MaxEdits == 1
\* Longest result list handed to the result report.
MaxResultList == 3
\* Longest text typed into the header search one character at a time.
MaxTermLen == 3

(***************************************************************************)
(* Generic helpers.                                                        *)
(***************************************************************************)
Range(s) == {s[i] : i \in 1..Len(s)}

Min(a, b) == IF a < b THEN a ELSE b

Max(a, b) == IF a > b THEN a ELSE b

\* The absent value of an optional state (null / undefined) and a present one.
Null == <<>>

Some(x) == <<x>>

Val(o) == o[1]

\* Array.prototype.slice(0, k).
Slice(s, k) == SubSeq(s, 1, Min(k, Len(s)))

\* Array.prototype.sort(() => 0.5 - Math.random()): any arrangement of s.
RECURSIVE Shuffles(_)
Shuffles(s) ==
  IF s = <<>> THEN {<<>>}
  ELSE UNION {{<<s[i]>> \o t :
                 t \in Shuffles(SubSeq(s, 1, i - 1) \o SubSeq(s, i + 1, Len(s)))} :
                i \in 1..Len(s)}

\* The arrangements the model follows where the code shuffles a list of
\* options: the list as built and its reversal.  The handlers read an option
\* only at the index the user picks, and the user may pick any index.
Reverse(s) == [i \in 1..Len(s) |-> s[Len(s) + 1 - i]]

Arrangements(s) == {s, Reverse(s)}

\* The orders a shuffled session list is followed in: every order of a list of
\* up to MaxShuffled words, the list order and its reversal of a longer one.
SessionOrders(s) == IF Len(s) <= MaxShuffled THEN Shuffles(s) ELSE Arrangements(s)

\* s lists its elements in increasing order.
Ascending(s) == \A i, j \in 1..Len(s) : i < j => s[i] < s[j]

\* String.prototype.includes: t occurs in s as a contiguous substring.
Includes(s, t) ==
  \E i \in 0..(Len(s) - Len(t)) : SubSeq(s, i + 1, i + Len(t)) = t

\* String.prototype.toLowerCase on the model's alphabet.  "S" stands for the
\* Greek capital sigma, "s" for the small sigma and "z" for the final small
\* sigma.
LowerChar(c) ==
  CASE c = "A" -> "a"
    [] c = "B" -> "b"
    [] OTHER -> c

\* The letters of the alphabet that have a case; the other characters stand
\* for blanks, digits, separators and Chinese characters.
Cased(c) ==
  c \in {"a", "b", "A", "B", "m", "n", "i", "h", "o", "a1", "i1", "S", "s", "z"}

\* The Final_Sigma condition of Unicode's SpecialCasing, which toLowerCase
\* applies: the sigma follows a cased letter and no cased letter follows it.
FinalSigma(s, i) ==
  /\ i > 1
  /\ Cased(s[i - 1])
  /\ ~(i < Len(s) /\ Cased(s[i + 1]))

ToLowerCase(s) ==
  [i \in 1..Len(s) |->
     IF s[i] = "S" THEN (IF FinalSigma(s, i) THEN "z" ELSE "s")
     ELSE LowerChar(s[i])]

\* normalize("NFD").replace(/[\u0300-\u036f]/g, ""): a letter with a tone mark
\* loses the mark.
StripTone(c) ==
  CASE c = "a1" -> "a"
    [] c = "i1" -> "i"
    [] OTHER -> c

\* App.normalizeText.
NormalizeText(s) == ToLowerCase([i \in 1..Len(s) |-> StripTone(s[i])])

\* String.prototype.trim: leading and trailing blanks removed.
RECURSIVE TrimLeft(_)
TrimLeft(s) ==
  IF s # <<>> /\ Head(s) = " " THEN TrimLeft(Tail(s)) ELSE s

RECURSIVE TrimRight(_)
TrimRight(s) ==
  IF s # <<>> /\ s[Len(s)] = " " THEN TrimRight(SubSeq(s, 1, Len(s) - 1)) ELSE s

Trim(s) == TrimRight(TrimLeft(s))

\* s.split(sep)[0] for a one-character separator.
RECURSIVE FirstSegment(_, _)
FirstSegment(s, sep) ==
  IF s = <<>> \/ Head(s) = sep THEN <<>>
  ELSE <<Head(s)>> \o FirstSegment(Tail(s), sep)

\* s.split(pat).join(rep) for a non-empty pat: every occurrence, left to right.
RECURSIVE ReplaceAll(_, _, _)
ReplaceAll(s, pat, rep) ==
  IF Len(s) < Len(pat) \/ pat = <<>> THEN s
  ELSE IF SubSeq(s, 1, Len(pat)) = pat
       THEN rep \o ReplaceAll(SubSeq(s, Len(pat) + 1, Len(s)), pat, rep)
       ELSE <<Head(s)>> \o ReplaceAll(Tail(s), pat, rep)

(***************************************************************************)
(* The word collection (types.ts VocabWord).  A word is named by its       *)
(* position in the loaded collection; api.ts gives every word an id.       *)
(***************************************************************************)
AllWords == <<1, 2, 3, 4, 5, 6, 7>>

\* id: the words of the level have the ids 1..7; NoId is the id of a
\* VocabWord whose optional id is not set.
NoId == 0

WordId(w) == w

\* hanzi: words 1 and 2 are two entries with the same headword; the headword
\* of word 7 begins with a Latin capital.
Hanzi(w) ==
  CASE w = 1 -> <<"Y", "Z">>
    [] w = 2 -> <<"Y", "Z">>
    [] w = 3 -> <<"X">>
    [] w = 7 -> <<"A", "W">>
    [] OTHER -> <<"W">>

\* translationsThai: empty for word 3.
TranslationsThai(w) ==
  CASE w = 1 -> << <<"a", "b", "a", "b">>, <<"a", "b">> >>
    [] w = 2 -> << <<"a", "b">> >>
    [] w = 3 -> <<>>
    [] OTHER -> << <<"B", " ", "a">> >>

\* translations: the second meaning of word 6 holds a small sigma.
Translations(w) ==
  CASE w = 1 -> << <<"A", "b", "a">> >>
    [] w = 2 -> << <<"b", "B">> >>
    [] w = 3 -> << <<"A", "b", "a">> >>
    [] w = 6 -> << <<"B", " ", "a">>, <<"a", "s", "a">> >>
    [] OTHER -> << <<"B", " ", "a">> >>

\* sheetExample: examples joined by "|".  Words 3, 4, 5 and 7 have an example
\* without their headword (that of word 3 holds the headword of word 4),
\* word 6 has no example.  The words above 7, those of the large level, have
\* an example with their headword.
SheetExample(w) ==
  CASE w = 1 -> <<"Y", "Z", "q", "Y", "Z", "|", "q">>
    [] w = 2 -> <<"q", "|", "Y", "Z">>
    [] w = 3 -> <<"q", "W">>
    [] w = 4 -> <<"q", "|", "q">>
    [] w = 6 -> <<>>
    [] w > 7 -> <<"q", "W">>
    [] OTHER -> <<"q">>

\* traditional: optional.
Traditional(w) ==
  CASE w = 1 -> <<"T">>
    [] OTHER -> <<>>

\* pinyin: "a1" and "i1" stand for the letters a and i with a tone mark; the
\* pinyin of word 5 is two syllables separated by a blank.
Pinyin(w) ==
  CASE w = 1 -> <<"m", "a1">>
    [] w = 5 -> <<"n", "i1", " ", "h", "a1", "o">>
    [] OTHER -> <<"m", "a">>

\* The preferred meanings: translationsThai if non-empty, else translations.
ValidMeanings(w) ==
  IF Len(TranslationsThai(w)) > 0 THEN TranslationsThai(w) ELSE Translations(w)

\* meanings[Math.floor(Math.random() * meanings.length)]: the possible results;
\* indexing an empty list yields undefined.
Undefined == <<"undefined">>

GetRandomTrans(w) ==
  IF ValidMeanings(w) = <<>> THEN {Undefined} ELSE Range(ValidMeanings(w))

\* A sample of three words taken from the whole list.
DistractorsUnfiltered(ws, target) == {Slice(s, 3) : s \in Shuffles(ws)}

\* words.filter(w => w.id !== target.id).sort(random).slice(0, 3): the
\* possible distractor lists.
Distractors(ws, target) ==
  {Slice(s, 3) :
     s \in Shuffles(SelectSeq(ws, LAMBDA w : WordId(w) # WordId(target)))}

\* The distractor lists the games follow: of the lists that differ only in
\* order, the one in list order, because the options are arranged again.
DistractorPicks(ws, target) == {d \in Distractors(ws, target) : Ascending(d)}

\* list.map(getRandomTrans): one sampled meaning per word.
MapRandomTrans(ds) ==
  {f \in [1..Len(ds) -> UNION {GetRandomTrans(ds[i]) : i \in 1..Len(ds)}] :
     \A i \in 1..Len(ds) : f[i] \in GetRandomTrans(ds[i])}

(***************************************************************************)
(* State.                                                                  *)
(***************************************************************************)
VARIABLES
  viewMode,       \* App.viewMode: "home", "list", "game_setup" or the mounted game
  selectedLevel,  \* App.selectedLevel: "1" (an HSK level), "favorites" or "none"
  searchTerm,     \* App.searchTerm: the text of the header search
  targetGame,     \* App.targetGame: the game the setup screen is shown for
  favorites,      \* App.favorites: list of word ids
  words,          \* the words prop of the mounted game
  quiz,           \* Quiz state
  write,          \* WriteQuiz state
  pinyin,         \* PinyinGame state
  sentence,       \* SentenceFillIn state
  speed,          \* SpeedChallenge state
  match,          \* MatchGame state
  interval,       \* the window.setInterval timer of SpeedChallenge is active
  ev,             \* history: the last answer or scan result a component handled
  hist,           \* history: counters of the session mounted last
  hunter,         \* VocabHunter state, its scan and its tip requests in flight
  loading,        \* App.loading: the word source has not been loaded yet
  data,           \* App.data: the words loaded, those of the one HSK level
  flashcardIndex  \* App.flashcardIndex

vars ==
  <<viewMode, selectedLevel, searchTerm, targetGame, favorites, words, quiz,
    write, pinyin, sentence, speed, match, interval, ev, hist, hunter,
    loading, data, flashcardIndex>>

\* The state of a component that is not mounted.
Off == [mounted |-> FALSE]

NoEv == [type |-> "none"]

NoHist == [ticks |-> 0, answers |-> 0, accepted |-> 0, edits |-> 0]

\* The record of a session started through the setup screen: the list the
\* dashboard showed when the mode was chosen.
Started(e) ==
  IF e.type = "setup" THEN [type |-> "started", shown |-> e.shown] ELSE NoEv

\* An accepted answer: the game, the round's target, what was selected (a
\* displayed string, a typed string or an option word) and the verdict.
Answer(game, target, selected, correct) ==
  [type |-> "answer", game |-> game, target |-> target, selected |-> selected,
   correct |-> correct]

\* The word lists Quiz and Write are started with (App.activeGameWords): the
\* first n words of the collection.  startGameWithCount takes currentWords as
\* they are when a count is chosen; the thresholds of the mode menu are tested
\* on the dashboard only, and in the favourites view the header search narrows
\* currentWords while the setup screen is shown, so a session may have any
\* number of words.
SessionLists == {Slice(AllWords, n) : n \in 1..Min(MaxSession, Len(AllWords))}

SentenceLists == {Slice(AllWords, n) : n \in 1..Min(MaxSentence, Len(AllWords))}

\* App.currentWords in the favourites level with no search term:
\* allWords.filter(w => w.id && favorites.includes(w.id)).
FavWords(favs) == SelectSeq(AllWords, LAMBDA w : WordId(w) \in Range(favs))

\* The predicate of filterWords' words.filter, for a non-empty term.
MatchesTerm(w, term) ==
  LET lowerTerm == Trim(ToLowerCase(term))
      normalizedTerm == NormalizeText(lowerTerm)
  IN  \/ Includes(Hanzi(w), lowerTerm)
      \/ Traditional(w) # <<>> /\ Includes(Traditional(w), lowerTerm)
      \/ Includes(ToLowerCase(Pinyin(w)), lowerTerm)
      \/ Includes(NormalizeText(Pinyin(w)), normalizedTerm)
      \/ \E i \in 1..Len(Translations(w)) :
            Includes(ToLowerCase(Translations(w)[i]), lowerTerm)
      \/ \E i \in 1..Len(TranslationsThai(w)) :
            Includes(ToLowerCase(TranslationsThai(w)[i]), lowerTerm)

\* filterWords with the matching words listed last to first.
FilterWordsReversed(ws, term) ==
  IF term = <<>> THEN ws
  ELSE Reverse(SelectSeq(ws, LAMBDA w : MatchesTerm(w, term)))

\* App.filterWords.
FilterWords(ws, term) ==
  IF term = <<>> THEN ws
  ELSE SelectSeq(ws, LAMBDA w : MatchesTerm(w, term))

\* App.currentWords: the one HSK level of the model holds the whole
\* collection.
CurrentWords(mode, level, term, favs) ==
  IF level = "favorites" THEN FilterWords(FavWords(favs), term)
  ELSE IF level = "1"
       THEN IF mode = "list" /\ term # <<>> THEN FilterWords(AllWords, term)
            ELSE AllWords
  ELSE IF mode = "home" /\ term # <<>> THEN FilterWords(AllWords, term)
  ELSE <<>>

\* toggleFavorite that appends the id whether or not it is present.
ToggleFavoriteAppend(favs, w) ==
  IF WordId(w) = NoId THEN favs ELSE Append(favs, WordId(w))

\* toggleFavorite without its first line.
ToggleFavoriteUnguarded(favs, w) ==
  IF WordId(w) \in Range(favs)
  THEN SelectSeq(favs, LAMBDA id : id # WordId(w))
  ELSE Append(favs, WordId(w))

\* App.toggleFavorite: nothing for a word without id; else remove the id if
\* present, else append it.
ToggleFavorite(favs, w) ==
  IF WordId(w) = NoId THEN favs
  ELSE IF WordId(w) \in Range(favs)
  THEN SelectSeq(favs, LAMBDA id : id # WordId(w))
  ELSE Append(favs, WordId(w))

\* A deduplication that keeps every id at its last occurrence.
RECURSIVE UniqueKeepLast(_)
UniqueKeepLast(list) ==
  IF list = <<>> THEN <<>>
  ELSE LET rest == UniqueKeepLast(Tail(list))
       IN  IF \E i \in 1..Len(rest) : WordId(rest[i]) = WordId(Head(list))
           THEN rest ELSE <<Head(list)>> \o rest

\* GameSummary: Array.from(new Map(list.map(w => [w.id, w])).values()): one
\* entry per id, at the position of the id's first occurrence.
RECURSIVE Unique(_)
Unique(list) ==
  IF list = <<>> THEN <<>>
  ELSE LET init == Unique(SubSeq(list, 1, Len(list) - 1))
           last == list[Len(list)]
       IN  IF \E i \in 1..Len(init) : WordId(init[i]) = WordId(last)
           THEN [i \in 1..Len(init) |->
                   IF WordId(init[i]) = WordId(last) THEN last ELSE init[i]]
           ELSE Append(init, last)

\* A report that lists a word once, as mastered if it was ever answered
\* correctly.
GameSummaryExclusive(correctWords, wrongWords) ==
  [uniqueCorrect |-> Unique(correctWords),
   uniqueWrong |-> SelectSeq(Unique(wrongWords),
                             LAMBDA w : \A i \in 1..Len(correctWords) :
                                          WordId(correctWords[i]) # WordId(w))]

\* GameSummary: the two lists of the result report.
GameSummary(correctWords, wrongWords) ==
  [uniqueCorrect |-> Unique(correctWords), uniqueWrong |-> Unique(wrongWords)]

\* The level dashboard of an HSK level.
Init ==
  /\ viewMode = "list"
  /\ selectedLevel = "1"
  /\ searchTerm = <<>>
  /\ targetGame = Null
  /\ favorites = <<>>
  /\ words = <<>>
  /\ quiz = Off
  /\ write = Off
  /\ pinyin = Off
  /\ sentence = Off
  /\ speed = Off
  /\ match = Off
  /\ interval = FALSE
  /\ ev = NoEv
  /\ hist = NoHist
  /\ hunter = Off
  /\ loading = FALSE
  /\ data = AllWords
  /\ flashcardIndex = 0

\* A callback that captured a session length one too small.
ClosureShort(idx, len) == Some([idx |-> idx, len |-> len - 1])

\* The setTimeout callback of an answer: it captured currentIndex and the
\* session length of the render that handled the answer.
Closure(idx, len) == Some([idx |-> idx, len |-> len])

(***************************************************************************)
(* Quiz (components/Quiz).                                                 *)
(***************************************************************************)
\* The options memo: the correct string and up to three distractor strings,
\* shuffled; empty while there is no current word.
QuizOptions(ws, cur) ==
  IF cur = Null THEN {<<>>}
  ELSE UNION {UNION {Arrangements(<<c>> \o ds) : ds \in MapRandomTrans(d)} :
                c \in GetRandomTrans(Val(cur)), d \in DistractorPicks(ws, Val(cur))}

\* quizSet[currentIndex], absent when the index is out of range.
CurrentOf(set, idx) == IF idx < Len(set) THEN Some(set[idx + 1]) ELSE Null

\* Mounting Quiz and its useEffect([words]).  Quiz, WriteQuiz, SentenceFillIn
\* and SpeedChallenge get App.activeGameWords, which no event changes while
\* they are mounted; the model starts them from the HSK level.
QuizMount(ws) ==
  /\ viewMode' = "quiz"
  /\ words' = ws
  /\ \E qs \in SessionOrders(ws) : \E opts \in QuizOptions(ws, CurrentOf(qs, 0)) :
       quiz' = [currentIndex |-> 0, score |-> 0, selectedOption |-> Null,
                isCorrect |-> Null, quizSet |-> qs, isFinished |-> FALSE,
                correctWords |-> <<>>, wrongWords |-> <<>>, options |-> opts,
                timer |-> Null]
  /\ ev' = Started(ev)
  /\ hist' = NoHist
  /\ UNCHANGED <<selectedLevel, searchTerm, targetGame, favorites, write,
                 pinyin, sentence, speed, match, interval, hunter,
                 loading, data, flashcardIndex>>

\* Quiz started from the level dashboard.
QuizStart(ws) == viewMode = "list" /\ QuizMount(ws)

\* A comparison with every meaning of the word, preferred or not.
QuizCorrectAnyMeaning(cur, selectedString) ==
  selectedString \in Range(TranslationsThai(cur) \o Translations(cur))

\* validMeanings.includes(selectedString).
QuizCorrect(cur, selectedString) == selectedString \in Range(ValidMeanings(cur))

\* A guard that lets every click through.
QuizNeverAnswered(q) == FALSE

\* The guard of Quiz.handleAnswer: an answer is already selected.
QuizAnswered(q) == q.selectedOption # Null

\* Quiz.handleAnswer(index).
QuizHandleAnswer(index) ==
  /\ viewMode = "quiz"
  /\ ~quiz.isFinished
  /\ CurrentOf(quiz.quizSet, quiz.currentIndex) # Null
  /\ index < Len(quiz.options)
  /\ IF QuizAnswered(quiz) THEN UNCHANGED vars
     ELSE LET cur == Val(CurrentOf(quiz.quizSet, quiz.currentIndex))
              selectedString == quiz.options[index + 1]
              correct == QuizCorrect(cur, selectedString)
          IN  /\ quiz' = [quiz EXCEPT
                   !.selectedOption = Some(index),
                   !.isCorrect = Some(correct),
                   !.score = IF correct THEN @ + 1 ELSE @,
                   !.correctWords = IF correct THEN Append(@, cur) ELSE @,
                   !.wrongWords = IF correct THEN @ ELSE Append(@, cur),
                   !.timer = Closure(quiz.currentIndex, Len(quiz.quizSet))]
              /\ ev' = Answer("quiz", cur, selectedString, correct)
              /\ hist' = [hist EXCEPT !.answers = @ + 1, !.accepted = @ + 1]
              /\ UNCHANGED <<viewMode, selectedLevel, searchTerm, targetGame,
                             favorites, words, write,
                             pinyin, sentence, speed, match, interval, hunter,
                             loading, data, flashcardIndex>>

\* The 1500 ms callback of Quiz.handleAnswer and the options memo of the
\* render that follows.
QuizTimeout ==
  /\ viewMode = "quiz"
  /\ quiz.timer # Null
  /\ LET c == Val(quiz.timer)
     IN  IF c.idx < c.len - 1
         THEN \E opts \in QuizOptions(words,
                            CurrentOf(quiz.quizSet, quiz.currentIndex + 1)) :
                quiz' = [quiz EXCEPT !.currentIndex = @ + 1,
                                     !.selectedOption = Null,
                                     !.isCorrect = Null,
                                     !.options = opts,
                                     !.timer = Null]
         ELSE quiz' = [quiz EXCEPT !.isFinished = TRUE, !.timer = Null]
  /\ ev' = NoEv
  /\ hist' = [hist EXCEPT !.accepted = 0]
  /\ UNCHANGED <<viewMode, selectedLevel, searchTerm, targetGame, favorites,
                 words, write, pinyin,
                 sentence, speed, match, interval, hunter,
                 loading, data, flashcardIndex>>

(***************************************************************************)
(* WriteQuiz (components/games/WriteQuiz).                                 *)
(***************************************************************************)
\* The strings typed in the model's sessions.
WriteInputs ==
  { <<>>,
    <<" ", "A", "B", " ">>,
    <<"b", "a", "b", "a", "b">>,
    <<"b", "a", "b", "a">> }

\* [...translationsThai, ...translations].map(s => s.toLowerCase().trim()).
WriteValidAnswers(w) ==
  LET all == TranslationsThai(w) \o Translations(w)
  IN  [i \in 1..Len(all) |-> Trim(ToLowerCase(all[i]))]

\* A substring rule that also admits answers of three characters.
WriteIsCorrectLoose(w, input) ==
  LET userInput == Trim(ToLowerCase(input))
      validAnswers == WriteValidAnswers(w)
  IN  \E i \in 1..Len(validAnswers) :
        \/ userInput = validAnswers[i]
        \/ (Len(validAnswers[i]) >= 3 /\ Includes(userInput, validAnswers[i]))

\* validAnswers.some(ans => userInput === ans ||
\*                          (ans.length > 3 && userInput.includes(ans))).
WriteIsCorrect(w, input) ==
  LET userInput == Trim(ToLowerCase(input))
      validAnswers == WriteValidAnswers(w)
  IN  \E i \in 1..Len(validAnswers) :
        \/ userInput = validAnswers[i]
        \/ (Len(validAnswers[i]) > 3 /\ Includes(userInput, validAnswers[i]))

\* Mounting WriteQuiz and its useEffect([words]).
WriteMount(ws) ==
  /\ viewMode' = "write"
  /\ words' = ws
  /\ \E qs \in SessionOrders(ws) :
       write' = [currentIndex |-> 0, input |-> <<>>, feedback |-> Null,
                 quizSet |-> qs, isFinished |-> FALSE, correctWords |-> <<>>,
                 wrongWords |-> <<>>, timer |-> Null]
  /\ ev' = Started(ev)
  /\ hist' = NoHist
  /\ UNCHANGED <<selectedLevel, searchTerm, targetGame, favorites, quiz,
                 pinyin, sentence, speed, match, interval, hunter,
                 loading, data, flashcardIndex>>

\* Write started from the level dashboard.
WriteStart(ws) == viewMode = "list" /\ WriteMount(ws)

\* The input's onChange; the input is disabled while feedback is shown.
WriteSetInput(text) ==
  /\ viewMode = "write"
  /\ ~write.isFinished
  /\ CurrentOf(write.quizSet, write.currentIndex) # Null
  /\ write.feedback = Null
  /\ write' = [write EXCEPT !.input = text]
  /\ UNCHANGED <<viewMode, selectedLevel, searchTerm, targetGame, favorites,
                 words, quiz, pinyin,
                 sentence, speed, match, interval, ev, hist, hunter,
                 loading, data, flashcardIndex>>

\* The characters typed in the sessions that exercise the answer rule.
WriteAlphabet == {"a", "b", "A", " "}

\* One more character typed into the input.
WriteType(c) ==
  /\ viewMode = "write"
  /\ Len(write.input) < MaxInputLen
  /\ WriteSetInput(Append(write.input, c))

\* The guard of WriteQuiz.handleSubmit: feedback is already shown.
WriteAnswered(wq) == wq.feedback # Null

\* WriteQuiz.handleSubmit.
WriteHandleSubmit ==
  /\ viewMode = "write"
  /\ ~write.isFinished
  /\ CurrentOf(write.quizSet, write.currentIndex) # Null
  /\ IF WriteAnswered(write) THEN UNCHANGED vars
     ELSE LET cur == Val(CurrentOf(write.quizSet, write.currentIndex))
              isCorrect == WriteIsCorrect(cur, write.input)
          IN  /\ write' = [write EXCEPT
                   !.feedback = Some(IF isCorrect THEN "correct" ELSE "wrong"),
                   !.correctWords = IF isCorrect THEN Append(@, cur) ELSE @,
                   !.wrongWords = IF isCorrect THEN @ ELSE Append(@, cur),
                   !.timer = Closure(write.currentIndex, Len(write.quizSet))]
              /\ ev' = Answer("write", cur, write.input, isCorrect)
              /\ hist' = [hist EXCEPT !.answers = @ + 1, !.accepted = @ + 1]
              /\ UNCHANGED <<viewMode, selectedLevel, searchTerm, targetGame,
                             favorites, words, quiz,
                             pinyin, sentence, speed, match, interval, hunter,
                             loading, data, flashcardIndex>>

\* The 2000 ms callback of WriteQuiz.handleSubmit.
WriteTimeout ==
  /\ viewMode = "write"
  /\ write.timer # Null
  /\ LET c == Val(write.timer)
     IN  IF c.idx < c.len - 1
         THEN write' = [write EXCEPT !.currentIndex = @ + 1,
                                     !.input = <<>>,
                                     !.feedback = Null,
                                     !.timer = Null]
         ELSE write' = [write EXCEPT !.isFinished = TRUE, !.timer = Null]
  /\ ev' = NoEv
  /\ hist' = [hist EXCEPT !.accepted = 0]
  /\ UNCHANGED <<viewMode, selectedLevel, searchTerm, targetGame, favorites,
                 words, quiz, pinyin,
                 sentence, speed, match, interval, hunter,
                 loading, data, flashcardIndex>>

(***************************************************************************)
(* PinyinGame (components/games/PinyinGame.tsx, first component).  Its     *)
(* words prop is App.currentWords.                                         *)
(***************************************************************************)
\* .slice(0, 10) of the shuffled words.
PinyinMaxQuestions == 10

\* The mode menu enables Pinyin from currentWords.length >= 4.
PinyinMinWords == 4

\* The options memo: the current word and up to three distractor words,
\* shuffled; empty while there is no current word.
PinyinOptions(ws, cur) ==
  IF cur = Null THEN {<<>>}
  ELSE UNION {Arrangements(<<Val(cur)>> \o d) : d \in DistractorPicks(ws, Val(cur))}

\* The useEffect([words]) of PinyinGame applied to state pg: a new quiz set
\* and empty result lists; currentIndex and selectedOption are kept.
PinyinEffect(pg, ws) ==
  {[pg EXCEPT !.quizSet = qs, !.correctWords = <<>>, !.wrongWords = <<>>,
              !.isFinished = FALSE, !.options = opts] :
     <<qs, opts>> \in
       UNION {{<<q, o>> : o \in PinyinOptions(ws, CurrentOf(q, pg.currentIndex))} :
                q \in {Slice(sh, PinyinMaxQuestions) : sh \in SessionOrders(ws)}}}

\* The word lists of an HSK level that PinyinGame is started with.
PinyinLists ==
  {Slice(AllWords, n) : n \in PinyinMinWords..Min(MaxSession + 1, Len(AllWords))}

\* Mounting PinyinGame from the mode menu (disabled below four words): in the
\* favourites level the list is the favourite words, otherwise the words of
\* the level.
PinyinStart(ws) ==
  /\ viewMode = "list"
  /\ IF selectedLevel = "favorites"
     THEN ws = CurrentWords(viewMode, selectedLevel, searchTerm, favorites)
     ELSE TRUE
  /\ Len(ws) >= PinyinMinWords
  /\ viewMode' = "pinyin"
  /\ words' = ws
  /\ pinyin' \in PinyinEffect([currentIndex |-> 0, quizSet |-> <<>>,
                               selectedOption |-> Null, isFinished |-> FALSE,
                               correctWords |-> <<>>, wrongWords |-> <<>>,
                               options |-> <<>>, timer |-> Null], ws)
  /\ ev' = NoEv
  /\ hist' = NoHist
  /\ UNCHANGED <<selectedLevel, searchTerm, targetGame, favorites, quiz, write,
                 sentence, speed, match, interval, hunter,
                 loading, data, flashcardIndex>>

\* A comparison of the headwords instead of the ids.
PinyinCorrectByHanzi(word, cur) == Hanzi(word) = Hanzi(cur)

\* word.id === currentWord.id.
PinyinCorrect(word, cur) == WordId(word) = WordId(cur)

\* The guard of PinyinGame.handleAnswer.
PinyinAnswered(pg) == pg.selectedOption # Null

\* PinyinGame.handleAnswer(word, index).
PinyinHandleAnswer(index) ==
  /\ viewMode = "pinyin"
  /\ ~pinyin.isFinished
  /\ CurrentOf(pinyin.quizSet, pinyin.currentIndex) # Null
  /\ index < Len(pinyin.options)
  /\ IF PinyinAnswered(pinyin) THEN UNCHANGED vars
     ELSE LET cur == Val(CurrentOf(pinyin.quizSet, pinyin.currentIndex))
              word == pinyin.options[index + 1]
              correct == PinyinCorrect(word, cur)
          IN  /\ pinyin' = [pinyin EXCEPT
                   !.selectedOption = Some(index),
                   !.correctWords = IF correct THEN Append(@, cur) ELSE @,
                   !.wrongWords = IF correct THEN @ ELSE Append(@, cur),
                   !.timer = Closure(pinyin.currentIndex, Len(pinyin.quizSet))]
              /\ ev' = Answer("pinyin", cur, word, correct)
              /\ hist' = [hist EXCEPT !.answers = @ + 1, !.accepted = @ + 1]
              /\ UNCHANGED <<viewMode, selectedLevel, searchTerm, targetGame,
                             favorites, words, quiz,
                             write, sentence, speed, match, interval, hunter,
                             loading, data, flashcardIndex>>

\* The 1200 ms callback of PinyinGame.handleAnswer and the options memo of
\* the render that follows.
PinyinTimeout ==
  /\ viewMode = "pinyin"
  /\ pinyin.timer # Null
  /\ LET c == Val(pinyin.timer)
     IN  IF c.idx < c.len - 1
         THEN \E opts \in PinyinOptions(words,
                            CurrentOf(pinyin.quizSet, pinyin.currentIndex + 1)) :
                pinyin' = [pinyin EXCEPT !.currentIndex = @ + 1,
                                         !.selectedOption = Null,
                                         !.options = opts,
                                         !.timer = Null]
         ELSE pinyin' = [pinyin EXCEPT !.isFinished = TRUE, !.timer = Null]
  /\ ev' = NoEv
  /\ hist' = [hist EXCEPT !.accepted = 0]
  /\ UNCHANGED <<viewMode, selectedLevel, searchTerm, targetGame, favorites,
                 words, quiz, write,
                 sentence, speed, match, interval, hunter,
                 loading, data, flashcardIndex>>

\* The words listed by GameSummary: both deduplicated lists.
SummaryRows(correctWords, wrongWords) ==
  Range(Unique(correctWords)) \cup Range(Unique(wrongWords))

\* A favourite star clicked on the result screen of PinyinGame in the
\* favourites level: App.toggleFavorite, the currentWords memo (a new array,
\* since favorites changed) and the game's useEffect([words]).
PinyinSummaryToggle(w) ==
  /\ viewMode = "pinyin"
  /\ pinyin.isFinished
  /\ selectedLevel = "favorites"
  /\ w \in SummaryRows(pinyin.correctWords, pinyin.wrongWords)
  /\ favorites' = ToggleFavorite(favorites, w)
  /\ words' = CurrentWords(viewMode, selectedLevel, searchTerm, favorites')
  /\ pinyin' \in PinyinEffect(pinyin, words')
  /\ ev' = NoEv
  /\ UNCHANGED <<viewMode, selectedLevel, searchTerm, targetGame, quiz, write,
                 sentence, speed, match,
                 interval, hist, hunter,
                 loading, data, flashcardIndex>>

(***************************************************************************)
(* SentenceFillIn (components/games/PinyinGame.tsx, second component).     *)
(***************************************************************************)
\* .slice(0, 10) of the shuffled valid words.
SentenceMaxQuestions == 10

\* The placeholder ' _____ ' that masks the headword.
Blank == <<" ", "_____", " ">>

\* A test for the headword of any word of the collection.
ExampleHasSomeHanzi(w) ==
  /\ SheetExample(w) # <<>>
  /\ \E v \in Range(AllWords) : Includes(SheetExample(w), Hanzi(v))

\* w.sheetExample && w.sheetExample.includes(w.hanzi).
ExampleHasHanzi(w) ==
  SheetExample(w) # <<>> /\ Includes(SheetExample(w), Hanzi(w))

\* words.filter(w => w.sheetExample && w.sheetExample.includes(w.hanzi)).
SentenceValidWords(ws) == SelectSeq(ws, ExampleHasHanzi)

\* The questions one word can yield: first example, masked, with the word
\* and up to three distractors from the full list as shuffled options.
SentenceQuestion(ws, word) ==
  LET rawExample == Trim(FirstSegment(SheetExample(word), "|"))
      masked == ReplaceAll(rawExample, Hanzi(word), Blank)
  IN  {[word |-> word, maskedSentence |-> masked,
        originalSentence |-> rawExample, options |-> opts] :
         opts \in UNION {Arrangements(<<word>> \o d) : d \in DistractorPicks(ws, word)}}

\* The question lists the useEffect([words]) can generate.
SentenceQuestions(ws) ==
  UNION {{qs \in [1..Len(sh) -> UNION {SentenceQuestion(ws, sh[i]) : i \in 1..Len(sh)}] :
            \A i \in 1..Len(sh) : qs[i] \in SentenceQuestion(ws, sh[i])} :
           sh \in {Slice(x, SentenceMaxQuestions) :
                     x \in SessionOrders(SentenceValidWords(ws))}}

\* Mounting SentenceFillIn and its useEffect([words]).
SentenceMount(ws) ==
  /\ viewMode' = "sentence"
  /\ words' = ws
  /\ \E qs \in SentenceQuestions(ws) :
       sentence' = [questions |-> qs, currentIndex |-> 0,
                    selectedOption |-> Null, isCorrect |-> Null,
                    isFinished |-> FALSE, score |-> 0, correctWords |-> <<>>,
                    wrongWords |-> <<>>, timer |-> Null]
  /\ ev' = Started(ev)
  /\ hist' = NoHist
  /\ UNCHANGED <<selectedLevel, searchTerm, targetGame, favorites, quiz, write,
                 pinyin, speed, match,
                 interval, hunter,
                 loading, data, flashcardIndex>>

\* Sentence started from the level dashboard.
SentenceStart(ws) == viewMode = "list" /\ SentenceMount(ws)

\* The 'Not Enough Data' screen: questions.length === 0 && words.length > 0.
SentenceNotEnoughData == Len(sentence.questions) = 0 /\ Len(words) > 0

\* The 'Loading...' screen: rendered when neither the 'Not Enough Data'
\* screen nor the summary is, and questions.length === 0.
SentenceLoading ==
  /\ ~SentenceNotEnoughData
  /\ ~sentence.isFinished
  /\ Len(sentence.questions) = 0

\* option.id === currentQ.word.id.
SentenceCorrect(option, word) == WordId(option) = WordId(word)

\* The guard of SentenceFillIn.handleAnswer.
SentenceAnswered(sf) == sf.selectedOption # Null

\* SentenceFillIn.handleAnswer(option), option one of the displayed options.
SentenceHandleAnswer(index) ==
  /\ viewMode = "sentence"
  /\ ~sentence.isFinished
  /\ sentence.currentIndex < Len(sentence.questions)
  /\ index < Len(sentence.questions[sentence.currentIndex + 1].options)
  /\ IF SentenceAnswered(sentence) THEN UNCHANGED vars
     ELSE LET currentQ == sentence.questions[sentence.currentIndex + 1]
              option == currentQ.options[index + 1]
              correct == SentenceCorrect(option, currentQ.word)
          IN  /\ sentence' = [sentence EXCEPT
                   !.selectedOption = Some(WordId(option)),
                   !.isCorrect = Some(correct),
                   !.score = IF correct THEN @ + 1 ELSE @,
                   !.correctWords = IF correct THEN Append(@, currentQ.word) ELSE @,
                   !.wrongWords = IF correct THEN @ ELSE Append(@, currentQ.word),
                   !.timer = Closure(sentence.currentIndex, Len(sentence.questions))]
              /\ ev' = Answer("sentence", currentQ.word, option, correct)
              /\ hist' = [hist EXCEPT !.answers = @ + 1, !.accepted = @ + 1]
              /\ UNCHANGED <<viewMode, selectedLevel, searchTerm, targetGame,
                             favorites, words, quiz,
                             write, pinyin, speed, match, interval, hunter,
                             loading, data, flashcardIndex>>

\* The 2000 ms callback of SentenceFillIn.handleAnswer.
SentenceTimeout ==
  /\ viewMode = "sentence"
  /\ sentence.timer # Null
  /\ LET c == Val(sentence.timer)
     IN  IF c.idx < c.len - 1
         THEN sentence' = [sentence EXCEPT !.currentIndex = @ + 1,
                                           !.selectedOption = Null,
                                           !.isCorrect = Null,
                                           !.timer = Null]
         ELSE sentence' = [sentence EXCEPT !.isFinished = TRUE, !.timer = Null]
  /\ ev' = NoEv
  /\ hist' = [hist EXCEPT !.accepted = 0]
  /\ UNCHANGED <<viewMode, selectedLevel, searchTerm, targetGame, favorites,
                 words, quiz, write, pinyin,
                 speed, match, interval, hunter,
                 loading, data, flashcardIndex>>

(***************************************************************************)
(* SpeedChallenge (components/games/SpeedChallenge.tsx).                   *)
(***************************************************************************)
\* useState(60): the countdown in seconds.
SpeedSeconds == 60

\* generateQuestion returns at once when words.length < 4.
SpeedMinWords == 4

\* The word lists Speed Challenge is started with: the smallest list that
\* yields questions, and one that is too short.
SpeedLists == {Slice(AllWords, SpeedMinWords), Slice(AllWords, SpeedMinWords - 1)}

\* generateQuestion: the possible (currentWord, options) results; none when
\* the list is too short.
GenerateQuestion(ws) ==
  IF Len(ws) < SpeedMinWords THEN {}
  ELSE UNION {UNION {UNION {{[currentWord |-> Some(ws[k]), options |-> o] :
                               o \in Arrangements(ds \o <<answer>>)} :
                              answer \in GetRandomTrans(ws[k])} :
                       ds \in UNION {MapRandomTrans(d) : d \in DistractorPicks(ws, ws[k])}} :
                k \in 1..Len(ws)}

\* The state after generateQuestion: unchanged when it returned at once.
\* The field round is history: the number of questions generated so far.
AfterGenerate(sp, ws) ==
  IF GenerateQuestion(ws) = {} THEN {sp}
  ELSE {[sp EXCEPT !.currentWord = q.currentWord, !.options = q.options,
                   !.round = @ + 1] :
          q \in GenerateQuestion(ws)}

\* Mounting SpeedChallenge and its mount effect: the first question and the
\* one-second interval.
SpeedMount(ws) ==
  /\ viewMode' = "speed"
  /\ words' = ws
  /\ speed' \in AfterGenerate([timeLeft |-> SpeedSeconds, score |-> 0,
                               currentWord |-> Null, options |-> <<>>,
                               isGameOver |-> FALSE, correctWords |-> <<>>,
                               wrongWords |-> <<>>, round |-> 0], ws)
  /\ interval' = TRUE
  /\ ev' = Started(ev)
  /\ hist' = NoHist
  /\ UNCHANGED <<selectedLevel, searchTerm, targetGame, favorites, quiz, write,
                 pinyin, sentence, match, hunter,
                 loading, data, flashcardIndex>>

\* Speed started from the level dashboard.
SpeedStart(ws) == viewMode = "list" /\ SpeedMount(ws)

\* An updater that ends the game one second late.
SpeedTickUpdateLate(sp) ==
  IF sp.timeLeft <= 0
  THEN [state |-> [sp EXCEPT !.timeLeft = 0, !.isGameOver = TRUE],
        interval |-> FALSE]
  ELSE [state |-> [sp EXCEPT !.timeLeft = @ - 1], interval |-> TRUE]

\* The interval callback's updater: at prev <= 1 the interval is cleared and
\* the game is over.
SpeedTickUpdate(sp) ==
  IF sp.timeLeft <= 1
  THEN [state |-> [sp EXCEPT !.timeLeft = 0, !.isGameOver = TRUE],
        interval |-> FALSE]
  ELSE [state |-> [sp EXCEPT !.timeLeft = @ - 1], interval |-> TRUE]

\* One firing of the interval.  A firing that finds the component unmounted
\* updates nothing.
SpeedTick ==
  /\ interval
  /\ IF viewMode = "speed"
     THEN /\ speed' = SpeedTickUpdate(speed).state
          /\ interval' = SpeedTickUpdate(speed).interval
     ELSE UNCHANGED <<speed, interval>>
  /\ ev' = NoEv
  /\ hist' = [hist EXCEPT !.ticks = @ + 1]
  /\ UNCHANGED <<viewMode, selectedLevel, searchTerm, targetGame, favorites,
                 words, quiz, write, pinyin,
                 sentence, match, hunter,
                 loading, data, flashcardIndex>>

\* validMeanings.includes(selected).
SpeedCorrect(cur, selected) == selected \in Range(ValidMeanings(cur))

\* A wrong answer that also moves on to the next question.
SpeedAfterWrongNext(sp, ws) ==
  AfterGenerate([sp EXCEPT !.score = Max(0, @ - 5),
                           !.wrongWords = Append(@, Val(sp.currentWord))], ws)

\* A wrong answer that subtracts 5 without the floor at 0.
SpeedAfterWrongUnclamped(sp, ws) ==
  {[sp EXCEPT !.score = @ - 5,
              !.wrongWords = Append(@, Val(sp.currentWord))]}

\* The state after a wrong answer: no question is generated.
SpeedAfterWrong(sp, ws) ==
  {[sp EXCEPT !.score = Max(0, @ - 5),
              !.wrongWords = Append(@, Val(sp.currentWord))]}

\* The state after a correct answer: the next question is generated at once.
SpeedAfterCorrect(sp, ws) ==
  AfterGenerate([sp EXCEPT !.score = @ + 10,
                           !.correctWords = Append(@, Val(sp.currentWord))], ws)

\* SpeedChallenge.handleAnswer(selected), selected one of the displayed options.
SpeedHandleAnswer(index) ==
  /\ viewMode = "speed"
  /\ index < Len(speed.options)
  /\ hist.answers < MaxAnswers
  /\ IF speed.isGameOver \/ speed.currentWord = Null THEN UNCHANGED vars
     ELSE LET cur == Val(speed.currentWord)
              selected == speed.options[index + 1]
              correct == SpeedCorrect(cur, selected)
          IN  /\ speed' \in (IF correct THEN SpeedAfterCorrect(speed, words)
                                        ELSE SpeedAfterWrong(speed, words))
              /\ ev' = Answer("speed", cur, selected, correct)
              /\ hist' = [hist EXCEPT !.answers = @ + 1]
              /\ UNCHANGED <<viewMode, selectedLevel, searchTerm, targetGame,
                             favorites, words, quiz,
                             write, pinyin, sentence, match, interval, hunter,
                             loading, data, flashcardIndex>>

(***************************************************************************)
(* MatchGame (components/games/MatchGame.tsx).  Its words prop is          *)
(* App.currentWords.  The cards are kept in creation order: the shuffle of *)
(* the deck changes grid positions only, and the code finds cards by id.   *)
(***************************************************************************)
\* .slice(0, 6) of the shuffled words, and matchesFound === 6.
MatchPairs == 6

\* The word list of an HSK level that Match is started with.
MatchLists == {Slice(AllWords, MatchPairs)}

\* [...words].sort(random).slice(0, 6): the orders the model follows are the
\* list order and its reversal.
MatchGameWords(ws) == {Slice(a, MatchPairs) : a \in Arrangements(ws)}

\* The two cards of the word at position idx (from 0) of gameWords.
HanziCard(w, idx) ==
  [id |-> <<"h", idx>>, wordId |-> WordId(w), content |-> Hanzi(w),
   type |-> "hanzi", isMatched |-> FALSE, isFlipped |-> FALSE]

MeaningCard(w, idx, meaning) ==
  [id |-> <<"m", idx>>, wordId |-> WordId(w), content |-> meaning,
   type |-> "meaning", isMatched |-> FALSE, isFlipped |-> FALSE]

\* newCards: a hanzi card and a meaning card per word, the meaning sampled.
RECURSIVE MatchDecks(_)
MatchDecks(gameWords) ==
  IF gameWords = <<>> THEN {<<>>}
  ELSE LET n == Len(gameWords)
           w == gameWords[n]
       IN  {deck \o <<HanziCard(w, n - 1), MeaningCard(w, n - 1, m)>> :
              deck \in MatchDecks(SubSeq(gameWords, 1, n - 1)),
              m \in GetRandomTrans(w)}

\* The useEffect([words]) of MatchGame applied to state mg: new active words
\* and a new deck; the other state is kept.
MatchEffect(mg, ws) ==
  UNION {{[mg EXCEPT !.activeWords = g, !.cards = deck] : deck \in MatchDecks(g)} :
           g \in MatchGameWords(ws)}

\* Mounting MatchGame from the mode menu (disabled below six words).
MatchStart(ws) ==
  /\ viewMode = "list"
  /\ IF selectedLevel = "favorites"
     THEN ws = CurrentWords(viewMode, selectedLevel, searchTerm, favorites)
     ELSE TRUE
  /\ Len(ws) >= MatchPairs
  /\ viewMode' = "match"
  /\ words' = ws
  /\ match' \in MatchEffect([cards |-> <<>>, flippedCards |-> <<>>,
                             matchesFound |-> 0, levelComplete |-> FALSE,
                             activeWords |-> <<>>, timer |-> Null,
                             completeTimer |-> FALSE], ws)
  /\ ev' = NoEv
  /\ hist' = NoHist
  /\ UNCHANGED <<selectedLevel, searchTerm, targetGame, favorites, quiz, write,
                 pinyin, sentence, speed,
                 interval, hunter,
                 loading, data, flashcardIndex>>

\* A guard that does not look at the number of pending cards.
MatchIgnoredLoose(mg, card) == card.isMatched \/ card.isFlipped

\* The guard of handleCardClick.
MatchIgnored(mg, card) ==
  card.isMatched \/ card.isFlipped \/ Len(mg.flippedCards) >= 2

\* cards.map(c => c.id in ids ? update(c) : c).
MatchSetFlipped(cards, ids, value) ==
  [i \in 1..Len(cards) |->
     IF cards[i].id \in ids THEN [cards[i] EXCEPT !.isFlipped = value]
     ELSE cards[i]]

\* A resolution that marks no card.
MatchSetMatchedNone(cards, ids) == cards

MatchSetMatched(cards, ids) ==
  [i \in 1..Len(cards) |->
     IF cards[i].id \in ids THEN [cards[i] EXCEPT !.isMatched = TRUE]
     ELSE cards[i]]

\* MatchGame.handleCardClick(card), card the k-th card of the grid.
MatchCardClick(k) ==
  /\ viewMode = "match"
  /\ ~match.levelComplete
  /\ k \in 1..Len(match.cards)
  /\ LET card == match.cards[k]
         newFlipped == Append(match.flippedCards, card)
     IN  IF MatchIgnored(match, card) THEN UNCHANGED vars
         ELSE /\ match' = [match EXCEPT
                   !.flippedCards = newFlipped,
                   !.cards = MatchSetFlipped(@, {card.id}, TRUE),
                   !.timer = IF Len(newFlipped) = 2
                             THEN Some([isMatch |-> newFlipped[1].wordId
                                                     = newFlipped[2].wordId,
                                        c1 |-> newFlipped[1].id,
                                        c2 |-> newFlipped[2].id])
                             ELSE @]
              /\ hist' = [hist EXCEPT !.accepted = @ + 1]
              /\ UNCHANGED <<viewMode, selectedLevel, searchTerm, targetGame,
                             favorites, words, quiz,
                             write, pinyin, sentence, speed, interval, ev,
                             hunter,
                             loading, data, flashcardIndex>>

\* The callback that resolves a pair (500 ms for a match, 1000 ms otherwise),
\* and the useEffect([matchesFound]) that schedules the end of the level.
MatchResolve ==
  /\ viewMode = "match"
  /\ match.timer # Null
  /\ LET t == Val(match.timer)
         found == IF t.isMatch THEN match.matchesFound + 1
                  ELSE match.matchesFound
     IN  match' = [match EXCEPT
           !.cards = IF t.isMatch THEN MatchSetMatched(@, {t.c1, t.c2})
                     ELSE MatchSetFlipped(@, {t.c1, t.c2}, FALSE),
           !.flippedCards = <<>>,
           !.matchesFound = found,
           !.timer = Null,
           !.completeTimer = IF t.isMatch /\ found = MatchPairs
                                /\ Len(match.cards) > 0
                             THEN TRUE ELSE @]
  /\ hist' = [hist EXCEPT !.accepted = 0,
                          !.answers = IF Val(match.timer).isMatch THEN @ + 1 ELSE @]
  /\ UNCHANGED <<viewMode, selectedLevel, searchTerm, targetGame, favorites,
                 words, quiz, write, pinyin,
                 sentence, speed, interval, ev, hunter,
                 loading, data, flashcardIndex>>

\* The 800 ms callback: setLevelComplete(true).
MatchComplete ==
  /\ viewMode = "match"
  /\ match.completeTimer
  /\ match' = [match EXCEPT !.levelComplete = TRUE, !.completeTimer = FALSE]
  /\ UNCHANGED <<viewMode, selectedLevel, searchTerm, targetGame, favorites,
                 words, quiz, write, pinyin,
                 sentence, speed, interval, ev, hist, hunter,
                 loading, data, flashcardIndex>>

(***************************************************************************)
(* Leaving a game, and the specification of the answer games.              *)
(***************************************************************************)
\* A cleanup that leaves the interval running.
SpeedCleanupNone(active) == active

\* The cleanup of SpeedChallenge's mount effect: clearInterval.
SpeedCleanup(active) == FALSE

\* 'Exit Activity', onFinish, or a header button: viewMode leaves the game
\* and its component is unmounted.  A pending setTimeout of the unmounted
\* component later fires into a discarded instance and changes nothing.
ExitToList ==
  /\ viewMode \in {"quiz", "write", "pinyin", "sentence", "speed", "match"}
  /\ viewMode' = "list"
  /\ words' = <<>>
  /\ quiz' = Off
  /\ write' = Off
  /\ pinyin' = Off
  /\ sentence' = Off
  /\ speed' = Off
  /\ match' = Off
  /\ interval' = IF viewMode = "speed" THEN SpeedCleanup(interval) ELSE interval
  /\ ev' = NoEv
  /\ UNCHANGED <<selectedLevel, searchTerm, targetGame, favorites, hist,
                 hunter,
                 loading, data, flashcardIndex>>

Next ==
  \/ \E ws \in SessionLists : QuizStart(ws)
  \/ \E i \in 0..3 : QuizHandleAnswer(i)
  \/ QuizTimeout
  \/ \E ws \in SessionLists : WriteStart(ws)
  \/ \E text \in WriteInputs : WriteSetInput(text)
  \/ WriteHandleSubmit
  \/ WriteTimeout
  \/ \E ws \in PinyinLists : PinyinStart(ws)
  \/ \E i \in 0..3 : PinyinHandleAnswer(i)
  \/ PinyinTimeout
  \/ \E ws \in SentenceLists : SentenceStart(ws)
  \/ \E i \in 0..3 : SentenceHandleAnswer(i)
  \/ SentenceTimeout
  \/ \E ws \in SpeedLists : SpeedStart(ws)
  \/ SpeedTick
  \/ \E i \in 0..3 : SpeedHandleAnswer(i)
  \/ ExitToList

Spec == Init /\ [][Next]_vars

(***************************************************************************)
(* The games fed by App.currentWords, played in the favourites level,      *)
(* where currentWords is recomputed from favorites.                        *)
(***************************************************************************)
\* The dashboard of the favourites level, some words starred.
InitFav ==
  /\ viewMode = "list"
  /\ selectedLevel = "favorites"
  /\ searchTerm = <<>>
  /\ targetGame = Null
  /\ favorites = Slice(AllWords, PinyinMinWords)
  /\ words = <<>>
  /\ quiz = Off
  /\ write = Off
  /\ pinyin = Off
  /\ sentence = Off
  /\ speed = Off
  /\ match = Off
  /\ interval = FALSE
  /\ ev = NoEv
  /\ hist = NoHist
  /\ hunter = Off
  /\ loading = FALSE
  /\ data = AllWords
  /\ flashcardIndex = 0

NextFav ==
  \/ \E ws \in {FavWords(favorites)} : PinyinStart(ws)
  \/ \E i \in 0..3 : PinyinHandleAnswer(i)
  \/ PinyinTimeout
  \/ \E w \in Range(AllWords) : PinyinSummaryToggle(w)
  \/ ExitToList

SpecFav == InitFav /\ [][NextFav]_vars

(***************************************************************************)
(* Match, from an HSK level.                                               *)
(***************************************************************************)
NextMatch ==
  \/ \E ws \in MatchLists : MatchStart(ws)
  \/ \E k \in 1..(2 * MatchPairs) : MatchCardClick(k)
  \/ MatchResolve
  \/ MatchComplete
  \/ ExitToList

SpecMatch == Init /\ [][NextMatch]_vars

(***************************************************************************)
(* Write sessions of one word, the answer typed character by character.    *)
(***************************************************************************)
WriteRuleLists == {<<w>> : w \in Range(AllWords)}

NextWriteRule ==
  \/ \E ws \in WriteRuleLists : WriteStart(ws)
  \/ \E c \in WriteAlphabet : WriteType(c)
  \/ WriteHandleSubmit
  \/ WriteTimeout
  \/ ExitToList

SpecWriteRule == Init /\ [][NextWriteRule]_vars

(***************************************************************************)
(* The header search (App.tsx Header), shown in every view.                *)
(***************************************************************************)
SearchTerms == {<<>>, <<"a">>, <<"b", "b">>, <<"W">>}

MountedGames == {"quiz", "write", "pinyin", "sentence", "speed", "match"}

\* The input's onChange: setSearchTerm, then the currentWords memo.  In the
\* favourites level the memo returns a new array, so the useEffect([words])
\* of a mounted MatchGame or PinyinGame runs; an HSK level keeps its array
\* while a game is shown.
SetSearchTerm(term) ==
  /\ term # searchTerm
  /\ viewMode \in MountedGames => hist.edits < MaxEdits
  /\ searchTerm' = term
  /\ LET cw == CurrentWords(viewMode, selectedLevel, term, favorites)
         fed == selectedLevel = "favorites" /\ viewMode \in {"pinyin", "match"}
     IN  /\ words' = IF fed THEN cw ELSE words
         /\ pinyin' \in IF fed /\ viewMode = "pinyin"
                        THEN PinyinEffect(pinyin, cw) ELSE {pinyin}
         /\ match' \in IF fed /\ viewMode = "match"
                       THEN MatchEffect(match, cw) ELSE {match}
         /\ ev' = IF fed THEN NoEv ELSE ev
  /\ hist' = IF viewMode \in MountedGames THEN [hist EXCEPT !.edits = @ + 1]
             ELSE hist
  /\ UNCHANGED <<viewMode, selectedLevel, targetGame, favorites, quiz, write,
                 sentence, speed, interval, hunter,
                 loading, data, flashcardIndex>>

(***************************************************************************)
(* Match, from the favourites level, with the header search.               *)
(***************************************************************************)
\* The dashboard of the favourites level, six words starred.
InitMatchFav ==
  /\ viewMode = "list"
  /\ selectedLevel = "favorites"
  /\ searchTerm = <<>>
  /\ targetGame = Null
  /\ favorites = Slice(AllWords, MatchPairs)
  /\ words = <<>>
  /\ quiz = Off
  /\ write = Off
  /\ pinyin = Off
  /\ sentence = Off
  /\ speed = Off
  /\ match = Off
  /\ interval = FALSE
  /\ ev = NoEv
  /\ hist = NoHist
  /\ hunter = Off
  /\ loading = FALSE
  /\ data = AllWords
  /\ flashcardIndex = 0

\* The texts typed while Match is followed: none, and one that a single
\* starred word matches.
MatchFavTerms == {<<>>, <<"b", "b">>}

NextMatchFav ==
  \/ \E ws \in {CurrentWords(viewMode, selectedLevel, searchTerm, favorites)} :
       MatchStart(ws)
  \/ \E k \in 1..(2 * MatchPairs) : MatchCardClick(k)
  \/ MatchResolve
  \/ MatchComplete
  \/ \E term \in MatchFavTerms : SetSearchTerm(term)
  \/ ExitToList

SpecMatchFav == InitMatchFav /\ [][NextMatchFav]_vars

(***************************************************************************)
(* Match played by a player who flips valid pairs only: a first card, then  *)
(* the other card of the same word.  The two setTimeout callbacks fire      *)
(* once scheduled, and the player keeps playing while a card can be         *)
(* flipped.                                                                 *)
(***************************************************************************)
\* A click of the k-th card by that player.
MatchPairClick(k) ==
  /\ viewMode = "match"
  /\ k \in 1..Len(match.cards)
  /\ ~MatchIgnored(match, match.cards[k])
  /\ \/ match.flippedCards = <<>>
     \/ /\ Len(match.flippedCards) = 1
        /\ match.cards[k].wordId = match.flippedCards[1].wordId
  /\ MatchCardClick(k)

NextMatchPairs ==
  \/ \E ws \in MatchLists : MatchStart(ws)
  \/ \E k \in 1..(2 * MatchPairs) : MatchPairClick(k)
  \/ MatchResolve
  \/ MatchComplete

SpecMatchPairs ==
  /\ Init
  /\ [][NextMatchPairs]_vars
  /\ WF_vars(\E k \in 1..(2 * MatchPairs) : MatchPairClick(k))
  /\ WF_vars(MatchResolve)
  /\ WF_vars(MatchComplete)

(***************************************************************************)
(* The level dashboard, the mode menu and the setup screen (App.tsx).      *)
(***************************************************************************)
\* The thresholds of the mode menu.
QuizMinWords == 4

SpeedMenuMinWords == 4

WriteMinWords == 5

SentenceMinExamples == 4

\* disabled={...} of the six GameButtons, negated.
MenuEnabled(game, cw) ==
  CASE game = "quiz" -> Len(cw) >= QuizMinWords
    [] game = "speed" -> Len(cw) >= SpeedMenuMinWords
    [] game = "match" -> Len(cw) >= MatchPairs
    [] game = "write" -> Len(cw) >= WriteMinWords
    [] game = "pinyin" -> Len(cw) >= PinyinMinWords
    [] game = "sentence" ->
         Len(SelectSeq(cw, LAMBDA w : SheetExample(w) # <<>>))
           >= SentenceMinExamples

\* The games started through the setup screen.
SetupGames == {"quiz", "speed", "write", "sentence"}

\* App.initiateGameSetup(game), from an enabled button of the mode menu.
InitiateGameSetup(game) ==
  /\ viewMode = "list"
  /\ MenuEnabled(game, CurrentWords(viewMode, selectedLevel, searchTerm, favorites))
  /\ targetGame' = Some(game)
  /\ words' = <<>>
  /\ viewMode' = "game_setup"
  /\ ev' = [type |-> "setup",
            shown |-> CurrentWords(viewMode, selectedLevel, searchTerm, favorites)]
  /\ UNCHANGED <<selectedLevel, searchTerm, favorites, quiz, write, pinyin,
                 sentence, speed, match, interval, hist, hunter,
                 loading, data, flashcardIndex>>

\* The buttons of the setup screen: 5, 10, 20 and 'All' (Null).
SetupCounts == {Some(5), Some(10), Some(20), Null}

\* availableCount of the setup screen and the filter of startGameWithCount:
\* for Sentence-Fill the words whose example contains their headword.
SetupWords(game, cw) ==
  IF game = "sentence" THEN SelectSeq(cw, ExampleHasHanzi) ELSE cw

\* App.startGameWithCount(count) and the mount of the target game.  A count
\* button is disabled above availableCount, the 'All' button never.  The
\* shuffle before the slice is followed in list order and reversed.
StartGameWithCount(count) ==
  /\ viewMode = "game_setup"
  /\ targetGame # Null
  /\ LET game == Val(targetGame)
         avail == SetupWords(game, CurrentWords(viewMode, selectedLevel,
                                               searchTerm, favorites))
     IN  /\ count # Null => Len(avail) >= Val(count)
         /\ \E sh \in Arrangements(avail) :
              LET gameWords == IF count = Null THEN sh ELSE Slice(sh, Val(count))
              IN  \/ game = "quiz" /\ QuizMount(gameWords)
                  \/ game = "speed" /\ SpeedMount(gameWords)
                  \/ game = "write" /\ WriteMount(gameWords)
                  \/ game = "sentence" /\ SentenceMount(gameWords)

\* The Match and Pinyin buttons of the mode menu: setViewMode, and the game
\* is handed currentWords as the new view computes it.
MenuStartPinyin ==
  /\ MenuEnabled("pinyin", CurrentWords(viewMode, selectedLevel, searchTerm, favorites))
  /\ PinyinStart(CurrentWords("pinyin", selectedLevel, searchTerm, favorites))

MenuStartMatch ==
  /\ MenuEnabled("match", CurrentWords(viewMode, selectedLevel, searchTerm, favorites))
  /\ MatchStart(CurrentWords("match", selectedLevel, searchTerm, favorites))

\* App.handleBack outside a game: the setup screen returns to the dashboard,
\* the dashboard to the home view.
HandleBack ==
  /\ viewMode \in {"game_setup", "list"}
  /\ viewMode' = IF viewMode = "list" THEN "home" ELSE "list"
  /\ selectedLevel' = IF viewMode = "list" THEN "none" ELSE selectedLevel
  /\ searchTerm' = IF viewMode = "list" THEN <<>> ELSE searchTerm
  /\ UNCHANGED <<targetGame, favorites, words, quiz, write, pinyin, sentence,
                 speed, match, interval, ev, hist, hunter,
                 loading, data, flashcardIndex>>

\* App.handleLevelSelect(level): a level card of the home view, or the
\* favourites button of the header, which every view shows.
HandleLevelSelect(level) ==
  /\ level = "favorites" \/ viewMode = "home"
  /\ selectedLevel' = level
  /\ viewMode' = "list"
  /\ searchTerm' = <<>>
  /\ words' = <<>>
  /\ quiz' = Off
  /\ write' = Off
  /\ pinyin' = Off
  /\ sentence' = Off
  /\ speed' = Off
  /\ match' = Off
  /\ interval' = IF viewMode = "speed" THEN SpeedCleanup(interval) ELSE interval
  /\ ev' = NoEv
  /\ flashcardIndex' = 0
  /\ UNCHANGED <<targetGame, favorites, hist, hunter, loading, data>>

\* The words whose star the user clicks in the word list.
StarWords == {7}

\* The star of a row of the dashboard's word list: App.toggleFavorite.
ListToggleFavorite(w) ==
  /\ viewMode = "list"
  /\ w \in Range(CurrentWords(viewMode, selectedLevel, searchTerm, favorites))
  /\ favorites' = ToggleFavorite(favorites, w)
  /\ UNCHANGED <<viewMode, selectedLevel, searchTerm, targetGame, words, quiz,
                 write, pinyin, sentence, speed, match, interval, ev, hist,
                 hunter,
                 loading, data, flashcardIndex>>

\* The dashboard of the HSK level, three words starred in an earlier visit
\* (favorites is read from localStorage).
InitMenu ==
  /\ viewMode = "list"
  /\ selectedLevel = "1"
  /\ searchTerm = <<>>
  /\ targetGame = Null
  /\ favorites = <<3, 4, 5>>
  /\ words = <<>>
  /\ quiz = Off
  /\ write = Off
  /\ pinyin = Off
  /\ sentence = Off
  /\ speed = Off
  /\ match = Off
  /\ interval = FALSE
  /\ ev = NoEv
  /\ hist = NoHist
  /\ hunter = Off
  /\ loading = FALSE
  /\ data = AllWords
  /\ flashcardIndex = 0

NextMenu ==
  \/ \E level \in {"1", "favorites"} : HandleLevelSelect(level)
  \/ HandleBack
  \/ \E term \in SearchTerms : SetSearchTerm(term)
  \/ \E w \in StarWords : ListToggleFavorite(w)
  \/ \E game \in SetupGames : InitiateGameSetup(game)
  \/ \E count \in SetupCounts : StartGameWithCount(count)
  \/ MenuStartPinyin
  \/ MenuStartMatch
  \/ ExitToList

SpecMenu == InitMenu /\ [][NextMenu]_vars

(***************************************************************************)
(* The result report (components/GameSummary.tsx) as a function of the     *)
(* two result lists it is handed.                                          *)
(***************************************************************************)
\* The words of the result lists.
SummaryPool == {1, 2, 3}

\* The lists of up to n words of the pool.
RECURSIVE ResultLists(_)
ResultLists(n) ==
  IF n = 0 THEN {<<>>}
  ELSE ResultLists(n - 1)
         \cup {Append(l, w) : l \in {x \in ResultLists(n - 1) : Len(x) = n - 1},
                              w \in SummaryPool}

\* The props of a GameSummary about to be rendered.
InitSummary ==
  /\ viewMode = "list"
  /\ selectedLevel = "1"
  /\ searchTerm = <<>>
  /\ targetGame = Null
  /\ favorites = <<>>
  /\ words = <<>>
  /\ quiz = Off
  /\ write = Off
  /\ pinyin = Off
  /\ sentence = Off
  /\ speed = Off
  /\ match = Off
  /\ interval = FALSE
  /\ \E c \in ResultLists(MaxResultList), w \in ResultLists(MaxResultList) :
       ev = [type |-> "props", correctWords |-> c, wrongWords |-> w]
  /\ hist = NoHist
  /\ hunter = Off
  /\ loading = FALSE
  /\ data = AllWords
  /\ flashcardIndex = 0

\* Rendering GameSummary.
SummaryRender ==
  /\ ev.type = "props"
  /\ ev' = [type |-> "summary", correctWords |-> ev.correctWords,
            wrongWords |-> ev.wrongWords,
            report |-> GameSummary(ev.correctWords, ev.wrongWords)]
  /\ UNCHANGED <<viewMode, selectedLevel, searchTerm, targetGame, favorites,
                 words, quiz, write, pinyin, sentence, speed, match, interval,
                 hist, hunter,
                 loading, data, flashcardIndex>>

SpecSummary == InitSummary /\ [][SummaryRender]_vars

(***************************************************************************)
(* The header search used on the home view and on a level dashboard.       *)
(***************************************************************************)
\* The characters typed into the search input.
SearchAlphabet == {"a", "b", "A", "W", " ", "a1", "S"}

\* Texts put into the search input at once.
PastedTerms ==
  {<<"n", "i", "h", "a", "o">>, <<"n", "i", "3", "h", "a", "o", "3">>,
   <<"n", "i", " ", "h", "a", "o">>}

\* A character typed at the end of the search text.
TypeSearch(c) ==
  /\ Len(searchTerm) < MaxTermLen
  /\ SetSearchTerm(Append(searchTerm, c))

\* The search text replaced by a pasted text, or cleared.
PasteSearch(term) == SetSearchTerm(term)

NextSearch ==
  \/ \E c \in SearchAlphabet : TypeSearch(c)
  \/ \E term \in PastedTerms \cup {<<>>} : PasteSearch(term)
  \/ \E level \in {"1", "favorites"} : HandleLevelSelect(level)
  \/ \E w \in StarWords : ListToggleFavorite(w)
  \/ HandleBack

SpecSearch == InitMenu /\ [][NextSearch]_vars

(***************************************************************************)
(* Vocab Hunter (components/games/VocabHunter.tsx), opened from the level  *)
(* dashboard.  captureAndScan is split at its two awaits: the click, the   *)
(* settling of identifyTextInImage and the settling of generateCultureTip. *)
(* The part after an await runs with the mode, quest target and word list  *)
(* of the render in which the scan button was clicked.                     *)
(***************************************************************************)
\* The characters in [\u4e00-\u9fa5]; the other characters of the alphabet
\* are Latin letters, digits, blanks and punctuation.
Ideograph(c) == c \in {"W", "X", "Y", "Z", "T", "q"}

\* clean: s.replace(/[^\u4e00-\u9fa5]/g, '').
Clean(s) == SelectSeq(s, Ideograph)

\* Array.prototype.find, given the elements that pass the test: the first
\* one, or undefined.
FirstOf(hits) == IF hits = <<>> THEN Null ELSE Some(hits[1])

ExploreExact(allWords, text) ==
  FirstOf(SelectSeq(allWords, LAMBDA w :
    \/ Clean(Hanzi(w)) = Clean(text)
    \/ Traditional(w) # <<>> /\ Clean(Traditional(w)) = Clean(text)))

ExploreSubstring(allWords, text) ==
  FirstOf(SelectSeq(allWords, LAMBDA w :
    Includes(Clean(text), Clean(Hanzi(w))) /\ Len(Hanzi(w)) >= 2))

\* The explore branch with its two passes swapped.
ExploreMatchSubstringFirst(allWords, texts) ==
  LET exact ==
        SelectSeq(texts, LAMBDA text : ExploreExact(allWords, text) # Null)
      substring ==
        SelectSeq(texts, LAMBDA text : ExploreSubstring(allWords, text) # Null)
  IN  IF substring # <<>> THEN ExploreSubstring(allWords, substring[1])
      ELSE IF exact # <<>> THEN ExploreExact(allWords, exact[1])
      ELSE Null

\* The explore branch of captureAndScan: each loop stops at the first
\* fragment for which allWords.find returns a word.
ExploreMatch(allWords, texts) ==
  LET exact ==
        SelectSeq(texts, LAMBDA text : ExploreExact(allWords, text) # Null)
      substring ==
        SelectSeq(texts, LAMBDA text : ExploreSubstring(allWords, text) # Null)
  IN  IF exact # <<>> THEN ExploreExact(allWords, exact[1])
      ELSE IF substring # <<>> THEN ExploreSubstring(allWords, substring[1])
      ELSE Null

\* isMatch of the quest branch.
QuestIsMatch(target, texts) ==
  \E i \in 1..Len(texts) :
    \/ Clean(texts[i]) = Clean(Hanzi(target))
    \/ Includes(Clean(texts[i]), Clean(Hanzi(target)))

\* otherMatch of the quest branch.
QuestOtherMatch(allWords, texts) ==
  FirstOf(SelectSeq(allWords, LAMBDA w :
    \E i \in 1..Len(texts) : Includes(Clean(texts[i]), Clean(Hanzi(w)))))

\* The recognition results: lists of text fragments.
DetectedTexts ==
  { <<>>,
    << <<"q", "Y", "Z">>, <<"X", "!">> >>,
    << <<"X">>, <<"Y", "Z">> >>,
    << <<"Y", "Z", "!">>, <<"X">> >>,
    << <<"W", "X">> >>,
    << <<"q">> >>,
    << <<"T">> >> }

\* Culture-tip requests in flight at one time.
MaxTips == 2
\* Most ids in the favourites of the toggle specification.
MaxFavorites == 3

\* VocabHunter after its first render; camera is the position of startCamera.
HunterMounted ==
  [mounted |-> TRUE, camera |-> "starting", scanning |-> FALSE,
   foundWord |-> Null, cultureTip |-> Null, error |-> "none",
   loadingTip |-> FALSE, mode |-> "explore", questTarget |-> Null,
   scan |-> Null, tips |-> <<>>]

\* The frame of the actions of VocabHunter.
HunterFrame ==
  UNCHANGED <<viewMode, selectedLevel, searchTerm, targetGame, favorites,
              words, quiz, write, pinyin, sentence, speed, match, interval,
              hist,
              loading, data, flashcardIndex>>

\* The Vocab Hunter button of the mode menu.
OpenHunter ==
  /\ viewMode = "list"
  /\ viewMode' = "hunter"
  /\ words' = CurrentWords("hunter", selectedLevel, searchTerm, favorites)
  /\ hunter' = HunterMounted
  /\ ev' = NoEv
  /\ UNCHANGED <<selectedLevel, searchTerm, targetGame, favorites, quiz,
                 write, pinyin, sentence, speed, match, interval, hist,
                 loading, data, flashcardIndex>>

\* startCamera: getUserMedia resolves.
CameraStarted ==
  /\ viewMode = "hunter"
  /\ hunter.camera = "starting"
  /\ hunter' = [hunter EXCEPT !.camera = "on"]
  /\ ev' = NoEv
  /\ HunterFrame

\* startCamera: getUserMedia rejects.
CameraFailed ==
  /\ viewMode = "hunter"
  /\ hunter.camera = "starting"
  /\ hunter' = [hunter EXCEPT !.camera = "failed", !.error = "camera"]
  /\ ev' = NoEv
  /\ HunterFrame

\* generateNewQuest on the word list allWords.
GenerateNewQuest(h, allWords) ==
  IF allWords = <<>> THEN {h}
  ELSE {[h EXCEPT !.questTarget = Some(w), !.foundWord = Null,
                  !.cultureTip = Null, !.error = "none"] :
          w \in Range(allWords)}

\* The Explore and Quest buttons, with the effect on [mode].
HunterSetMode(m) ==
  /\ viewMode = "hunter"
  /\ hunter.foundWord = Null
  /\ LET h == [hunter EXCEPT !.mode = m, !.error = "none"]
     IN  hunter' \in IF m # hunter.mode /\ m = "quest" /\ h.questTarget = Null
                     THEN GenerateNewQuest(h, words)
                     ELSE {h}
  /\ ev' = NoEv
  /\ HunterFrame

\* The shuffle button of the quest overlay.
HunterNewQuest ==
  /\ viewMode = "hunter"
  /\ hunter.mode = "quest"
  /\ hunter.questTarget # Null
  /\ hunter.foundWord = Null
  /\ hunter' \in GenerateNewQuest(hunter, words)
  /\ ev' = NoEv
  /\ HunterFrame

\* captureAndScan up to the await of identifyTextInImage.
CaptureAndScan ==
  /\ viewMode = "hunter"
  /\ hunter.foundWord = Null
  /\ ~hunter.scanning
  /\ Len(hunter.tips) < MaxTips
  /\ hunter' = [hunter EXCEPT
       !.scanning = TRUE, !.error = "none", !.foundWord = Null,
       !.cultureTip = Null,
       !.scan = Some([mode |-> hunter.mode,
                      questTarget |-> hunter.questTarget,
                      allWords |-> words])]
  /\ ev' = NoEv
  /\ HunterFrame

\* The culture-tip requests in flight with the request for w added.  The
\* requests settle in any order, so the list is kept in ascending order.
InFlight(tips, w) ==
  LET before == SelectSeq(tips, LAMBDA v : v <= w)
      after == SelectSeq(tips, LAMBDA v : v > w)
  IN  before \o <<w>> \o after

\* The outcome of a scan in which the other word a failed quest scan has
\* come upon counts as found.
ScanOutcomeOtherFound(c, detectedTexts) ==
  IF detectedTexts = <<>> THEN [match |-> Null, error |-> "no_text"]
  ELSE IF c.mode = "explore"
  THEN LET found == ExploreMatch(c.allWords, detectedTexts)
       IN  [match |-> found,
            error |-> IF found = Null THEN "not_in_list" ELSE "none"]
  ELSE IF c.questTarget # Null
  THEN IF QuestIsMatch(Val(c.questTarget), detectedTexts)
       THEN [match |-> c.questTarget, error |-> "none"]
       ELSE LET other == QuestOtherMatch(c.allWords, detectedTexts)
            IN  [match |-> other,
                 error |-> IF other # Null THEN "other_word"
                           ELSE "not_detected"]
  ELSE [match |-> Null, error |-> "not_in_list"]

\* The outcome of captureAndScan after identifyTextInImage has resolved with
\* detectedTexts: the matched word, or the error message shown.
ScanOutcome(c, detectedTexts) ==
  IF detectedTexts = <<>> THEN [match |-> Null, error |-> "no_text"]
  ELSE IF c.mode = "explore"
  THEN LET found == ExploreMatch(c.allWords, detectedTexts)
       IN  [match |-> found,
            error |-> IF found = Null THEN "not_in_list" ELSE "none"]
  ELSE IF c.questTarget # Null
  THEN IF QuestIsMatch(Val(c.questTarget), detectedTexts)
       THEN [match |-> c.questTarget, error |-> "none"]
       ELSE [match |-> Null,
             error |-> IF QuestOtherMatch(c.allWords, detectedTexts) # Null
                       THEN "other_word" ELSE "not_detected"]
  ELSE [match |-> Null, error |-> "not_in_list"]

\* A scan that returns at an unmatched result without a message and without
\* setScanning(false).
ScanResolveSilent(detectedTexts) ==
  /\ viewMode = "hunter"
  /\ hunter.scan # Null
  /\ LET c == Val(hunter.scan)
         out == ScanOutcome(c, detectedTexts)
     IN  /\ hunter' =
              IF out.match # Null
              THEN [hunter EXCEPT !.foundWord = out.match, !.scanning = FALSE,
                                  !.loadingTip = TRUE, !.scan = Null,
                                  !.tips = InFlight(@, Val(out.match))]
              ELSE [hunter EXCEPT !.scan = Null]
         /\ ev' = [type |-> "scanned", mode |-> c.mode,
                   questTarget |-> c.questTarget, allWords |-> c.allWords,
                   detectedTexts |-> detectedTexts]
  /\ HunterFrame

\* captureAndScan from the await of identifyTextInImage to the await of
\* generateCultureTip, or to its end.
ScanResolve(detectedTexts) ==
  /\ viewMode = "hunter"
  /\ hunter.scan # Null
  /\ LET c == Val(hunter.scan)
         out == ScanOutcome(c, detectedTexts)
     IN  /\ hunter' =
              IF out.match # Null
              THEN [hunter EXCEPT !.foundWord = out.match, !.scanning = FALSE,
                                  !.loadingTip = TRUE, !.scan = Null,
                                  !.tips = InFlight(@, Val(out.match))]
              ELSE [hunter EXCEPT !.error = out.error, !.scanning = FALSE,
                                  !.scan = Null]
         /\ ev' = [type |-> "scanned", mode |-> c.mode,
                   questTarget |-> c.questTarget, allWords |-> c.allWords,
                   detectedTexts |-> detectedTexts]
  /\ HunterFrame

\* captureAndScan's catch: the recognition result is not a list of strings.
ScanThrows ==
  /\ viewMode = "hunter"
  /\ hunter.scan # Null
  /\ hunter' = [hunter EXCEPT !.error = "failed", !.scanning = FALSE,
                              !.scan = Null]
  /\ ev' = NoEv
  /\ HunterFrame

Without(s, i) == [k \in 1..(Len(s) - 1) |-> IF k < i THEN s[k] ELSE s[k + 1]]

\* generateCultureTip resolves: setCultureTip(tip), then finally.
TipResolve(i) ==
  /\ viewMode = "hunter"
  /\ i \in 1..Len(hunter.tips)
  /\ hunter' = [hunter EXCEPT !.cultureTip = Some(hunter.tips[i]),
                              !.loadingTip = FALSE, !.tips = Without(@, i)]
  /\ ev' = [type |-> "tip", word |-> hunter.tips[i]]
  /\ HunterFrame

\* A rejected generateCultureTip handled by the outer catch of captureAndScan.
TipFailInvalidates(i) ==
  /\ viewMode = "hunter"
  /\ i \in 1..Len(hunter.tips)
  /\ hunter' = [hunter EXCEPT !.error = "failed", !.scanning = FALSE,
                              !.loadingTip = FALSE, !.tips = Without(@, i)]
  /\ ev' = [type |-> "tipFailed", word |-> hunter.tips[i]]
  /\ HunterFrame

\* generateCultureTip rejects: the inner catch, then finally.
TipFail(i) ==
  /\ viewMode = "hunter"
  /\ i \in 1..Len(hunter.tips)
  /\ hunter' = [hunter EXCEPT !.loadingTip = FALSE, !.tips = Without(@, i)]
  /\ ev' = [type |-> "tipFailed", word |-> hunter.tips[i]]
  /\ HunterFrame

\* resetScanner: "Scan Another" and "Start Next Mission".
ResetScanner ==
  /\ viewMode = "hunter"
  /\ hunter.foundWord # Null
  /\ LET h == [hunter EXCEPT !.foundWord = Null, !.cultureTip = Null,
                             !.error = "none"]
     IN  hunter' \in IF h.mode = "quest" THEN GenerateNewQuest(h, words)
                     ELSE {h}
  /\ ev' = NoEv
  /\ HunterFrame

\* onFinish: VocabHunter is unmounted; what its callbacks in flight set later
\* is not rendered.
HunterFinish ==
  /\ viewMode = "hunter"
  /\ viewMode' = "list"
  /\ words' = <<>>
  /\ hunter' = Off
  /\ ev' = NoEv
  /\ UNCHANGED <<selectedLevel, searchTerm, targetGame, favorites, quiz,
                 write, pinyin, sentence, speed, match, interval, hist,
                 loading, data, flashcardIndex>>

\* The favourites starred when the Hunter is opened from that level.
HunterFavorites == <<2, 4, 7>>

InitHunter ==
  /\ viewMode = "list"
  /\ selectedLevel \in {"1", "favorites"}
  /\ searchTerm = <<>>
  /\ targetGame = Null
  /\ favorites = HunterFavorites
  /\ words = <<>>
  /\ quiz = Off
  /\ write = Off
  /\ pinyin = Off
  /\ sentence = Off
  /\ speed = Off
  /\ match = Off
  /\ interval = FALSE
  /\ ev = NoEv
  /\ hist = NoHist
  /\ hunter = Off
  /\ loading = FALSE
  /\ data = AllWords
  /\ flashcardIndex = 0

NextHunter ==
  \/ OpenHunter
  \/ CameraStarted
  \/ CameraFailed
  \/ \E m \in {"explore", "quest"} : HunterSetMode(m)
  \/ HunterNewQuest
  \/ CaptureAndScan
  \/ \E detectedTexts \in DetectedTexts : ScanResolve(detectedTexts)
  \/ ScanThrows
  \/ \E i \in 1..MaxTips : TipResolve(i)
  \/ \E i \in 1..MaxTips : TipFail(i)
  \/ ResetScanner
  \/ HunterFinish

SpecHunter == InitHunter /\ [][NextHunter]_vars

\* The requests of a scan settle: recognition and culture tip are network
\* calls that resolve or reject.
SpecHunterFair ==
  /\ SpecHunter
  /\ WF_vars(\E detectedTexts \in DetectedTexts : ScanResolve(detectedTexts))
  /\ WF_vars(\E i \in 1..MaxTips : TipResolve(i) \/ TipFail(i))

(***************************************************************************)
(* App.toggleFavorite as the star buttons call it, with the effect that    *)
(* writes the favourites to localStorage.  ev holds the word toggled last, *)
(* the favourites before the toggle and the stored copy.                   *)
(***************************************************************************)
\* The words handed to toggleFavorite: the words of the level and a
\* VocabWord without id.
ToggleWords == Range(AllWords) \cup {NoId}

InitToggle ==
  /\ viewMode = "list"
  /\ selectedLevel = "1"
  /\ searchTerm = <<>>
  /\ targetGame = Null
  /\ favorites = <<>>
  /\ words = <<>>
  /\ quiz = Off
  /\ write = Off
  /\ pinyin = Off
  /\ sentence = Off
  /\ speed = Off
  /\ match = Off
  /\ interval = FALSE
  /\ ev = [type |-> "stored", stored |-> <<>>]
  /\ hist = NoHist
  /\ hunter = Off
  /\ loading = FALSE
  /\ data = AllWords
  /\ flashcardIndex = 0

\* toggleFavorite(w), then useEffect([favorites]): the effect runs when
\* setFavorites has produced a new list.
StarToggle(w) ==
  /\ viewMode = "list"
  /\ Len(ToggleFavorite(favorites, w)) <= MaxFavorites
  /\ favorites' = ToggleFavorite(favorites, w)
  /\ ev' = [type |-> "toggled", word |-> w, before |-> favorites,
            stored |-> IF WordId(w) = NoId THEN ev.stored ELSE favorites']
  /\ UNCHANGED <<viewMode, selectedLevel, searchTerm, targetGame, words, quiz,
                 write, pinyin, sentence, speed, match, interval, hist,
                 hunter,
                 loading, data, flashcardIndex>>

NextToggle == \E w \in ToggleWords : StarToggle(w)

SpecToggle == InitToggle /\ [][NextToggle]_vars

(***************************************************************************)
(* Loading the word source (App.tsx loadData, services/api.ts              *)
(* fetchVocabData).  The mount effect starts the fetch; the app shows the  *)
(* spinner while loading is true.  services/api.ts holds more than one     *)
(* definition of fetchVocabData: they differ in the catch block, which     *)
(* returns {} in one and rethrows in the other, and the build has one of   *)
(* them.                                                                   *)
(***************************************************************************)
\* The ways the fetch can fail inside the try block of fetchVocabData.
FetchFailures == {"network", "notOk", "malformedJson"}

\* The catch blocks of the definitions of fetchVocabData.
FetchVariants == {"returnsEmpty", "rethrows"}

\* The app after mounting: the fetch is in flight.
InitLoad ==
  /\ viewMode = "home"
  /\ selectedLevel = "none"
  /\ searchTerm = <<>>
  /\ targetGame = Null
  /\ favorites = <<3, 4, 5>>
  /\ words = <<>>
  /\ quiz = Off
  /\ write = Off
  /\ pinyin = Off
  /\ sentence = Off
  /\ speed = Off
  /\ match = Off
  /\ interval = FALSE
  /\ ev = [type |-> "fetching"]
  /\ hist = NoHist
  /\ hunter = Off
  /\ loading = TRUE
  /\ data = <<>>
  /\ flashcardIndex = 0

\* fetchVocabData resolves with the processed items; loadData stores them and
\* leaves the loading state.
FetchResolves ==
  /\ loading
  /\ ev.type = "fetching"
  /\ data' = AllWords
  /\ loading' = FALSE
  /\ ev' = [type |-> "fetched"]
  /\ UNCHANGED <<viewMode, selectedLevel, searchTerm, targetGame, favorites,
                 words, quiz, write, pinyin, sentence, speed, match, interval,
                 hist, hunter, flashcardIndex>>

\* The fetch fails.  A catch block that returns {} lets loadData go on with
\* setData({}) and setLoading(false); one that rethrows rejects the promise
\* loadData awaits, and loadData, which has no try, ends there.
FetchFails(failure, variant) ==
  /\ loading
  /\ ev.type = "fetching"
  /\ ev' = [type |-> "fetchFailed", failure |-> failure, variant |-> variant]
  /\ IF variant = "returnsEmpty"
       THEN data' = <<>> /\ loading' = FALSE
       ELSE UNCHANGED <<data, loading>>
  /\ UNCHANGED <<viewMode, selectedLevel, searchTerm, targetGame, favorites,
                 words, quiz, write, pinyin, sentence, speed, match, interval,
                 hist, hunter, flashcardIndex>>

\* The home screen offers the levels once loading is over; a level with no
\* words is disabled.
LevelsOffered == ~loading /\ data # <<>>

NextLoad ==
  \/ FetchResolves
  \/ \E failure \in FetchFailures, variant \in FetchVariants :
       FetchFails(failure, variant)
  \/ LevelsOffered /\ NextMenu

SpecLoad == InitLoad /\ [][NextLoad]_vars

(***************************************************************************)
(* The mapping of a source item to a word (services/api.ts fetchVocabData, *)
(* list.forEach) as a function of the item's meaning fields, and the       *)
(* preferred-meaning pick of the games on the word it yields.              *)
(***************************************************************************)
MaxRawLen == 3

\* The characters of a raw meaning field: letters, a separator and a space.
RawAlphabet == {"a", "b", ",", " "}

\* The raw fields of up to MaxRawLen characters; the empty one stands for a
\* field that is absent or empty, which the code does not tell apart.
RawFields ==
  UNION {[1..n -> RawAlphabet] : n \in 0..MaxRawLen}

\* The source items: rawEng (english || meaning || translations ||
\* definition) and thai_meanings.
Items == [english : RawFields, thai_meanings : RawFields]

\* raw.split(/[|;,]/)
RECURSIVE SplitMeanings(_)
SplitMeanings(raw) ==
  IF \A i \in 1..Len(raw) : raw[i] \notin {"|", ";", ","} THEN <<raw>>
  ELSE LET k == CHOOSE i \in 1..Len(raw) :
                   /\ raw[i] \in {"|", ";", ","}
                   /\ \A j \in 1..(i - 1) : raw[j] \notin {"|", ";", ","}
       IN  <<SubSeq(raw, 1, k - 1)>> \o SplitMeanings(SubSeq(raw, k + 1, Len(raw)))

\* String(raw).split(/[|;,]/).map(s => s.trim()).filter(Boolean)
ParseMeanings(raw) ==
  SelectSeq([i \in 1..Len(SplitMeanings(raw)) |-> Trim(SplitMeanings(raw)[i])],
            LAMBDA s : s # <<>>)

\* The meaning lists of the word an item is mapped to.
ProcessItem(item) ==
  LET translationsThai ==
        IF item.thai_meanings # <<>> THEN ParseMeanings(item.thai_meanings)
        ELSE <<>>
  IN  [translationsThai |-> translationsThai,
       translations |->
         IF item.english # <<>> THEN ParseMeanings(item.english)
         ELSE IF Len(translationsThai) > 0 THEN translationsThai
         ELSE <<>>]

\* getRandomTrans(w) on a mapped word: the possible results.
RandomTransOf(word) ==
  LET meanings == IF Len(word.translationsThai) > 0 THEN word.translationsThai
                  ELSE word.translations
  IN  IF meanings = <<>> THEN {Undefined} ELSE Range(meanings)

InitItems ==
  /\ viewMode = "home"
  /\ selectedLevel = "none"
  /\ searchTerm = <<>>
  /\ targetGame = Null
  /\ favorites = <<>>
  /\ words = <<>>
  /\ quiz = Off
  /\ write = Off
  /\ pinyin = Off
  /\ sentence = Off
  /\ speed = Off
  /\ match = Off
  /\ interval = FALSE
  /\ \E item \in Items : ev = [type |-> "item", item |-> item]
  /\ hist = NoHist
  /\ hunter = Off
  /\ loading = TRUE
  /\ data = <<>>
  /\ flashcardIndex = 0

\* The item is mapped to a word.
MapItem ==
  /\ ev.type = "item"
  /\ ev' = [type |-> "mapped", item |-> ev.item, word |-> ProcessItem(ev.item)]
  /\ UNCHANGED <<viewMode, selectedLevel, searchTerm, targetGame, favorites,
                 words, quiz, write, pinyin, sentence, speed, match, interval,
                 hist, hunter, loading, data, flashcardIndex>>

\* A game picks the preferred meaning of the word.
PickMeaning ==
  /\ ev.type = "mapped"
  /\ \E m \in RandomTransOf(ev.word) :
       ev' = [type |-> "picked", item |-> ev.item, word |-> ev.word, pick |-> m]
  /\ UNCHANGED <<viewMode, selectedLevel, searchTerm, targetGame, favorites,
                 words, quiz, write, pinyin, sentence, speed, match, interval,
                 hist, hunter, loading, data, flashcardIndex>>

NextItems == MapItem \/ PickMeaning

SpecItems == InitItems /\ [][NextItems]_vars

(***************************************************************************)
(* The flashcard view (App.tsx renderContent, case 'flashcard'): the card  *)
(* of currentWords[flashcardIndex], with the header search and the         *)
(* favourites button of the header.                                        *)
(***************************************************************************)
\* currentWords as the flashcard view computes it.
FlashcardWords == CurrentWords("flashcard", selectedLevel, searchTerm, favorites)

\* The Flashcard component is rendered: the list is not empty and
\* currentWords[flashcardIndex] is a word.
CardRendered ==
  /\ viewMode = "flashcard"
  /\ flashcardIndex < Len(FlashcardWords)

\* currentWords[flashcardIndex] is undefined in a non-empty list: reading its
\* id throws while rendering, and React unmounts the app.
FlashcardCrashed ==
  /\ viewMode = "flashcard"
  /\ FlashcardWords # <<>>
  /\ flashcardIndex >= Len(FlashcardWords)

\* The Flashcards button of the mode menu.
OpenFlashcard ==
  /\ viewMode = "list"
  /\ viewMode' = "flashcard"
  /\ UNCHANGED <<selectedLevel, searchTerm, targetGame, favorites, words, quiz,
                 write, pinyin, sentence, speed, match, interval, ev, hist,
                 hunter, loading, data, flashcardIndex>>

\* onNext: setFlashcardIndex(i => (i + 1) % currentWords.length).
FlashcardNext ==
  /\ CardRendered
  /\ flashcardIndex' = (flashcardIndex + 1) % Len(FlashcardWords)
  /\ UNCHANGED <<viewMode, selectedLevel, searchTerm, targetGame, favorites,
                 words, quiz, write, pinyin, sentence, speed, match, interval,
                 ev, hist, hunter, loading, data>>

\* onPrev: setFlashcardIndex(i => (i - 1 + currentWords.length) %
\* currentWords.length).
FlashcardPrev ==
  /\ CardRendered
  /\ flashcardIndex' =
       (flashcardIndex - 1 + Len(FlashcardWords)) % Len(FlashcardWords)
  /\ UNCHANGED <<viewMode, selectedLevel, searchTerm, targetGame, favorites,
                 words, quiz, write, pinyin, sentence, speed, match, interval,
                 ev, hist, hunter, loading, data>>

\* The star of the card: App.toggleFavorite on the word shown.
FlashcardToggleFavorite ==
  /\ CardRendered
  /\ Len(ToggleFavorite(favorites, FlashcardWords[flashcardIndex + 1]))
       <= MaxFavorites
  /\ favorites' = ToggleFavorite(favorites, FlashcardWords[flashcardIndex + 1])
  /\ UNCHANGED <<viewMode, selectedLevel, searchTerm, targetGame, words, quiz,
                 write, pinyin, sentence, speed, match, interval, ev, hist,
                 hunter, loading, data, flashcardIndex>>

\* 'Back to List', and App.handleBack from the flashcard view.
FlashcardBack ==
  /\ viewMode = "flashcard"
  /\ viewMode' = "list"
  /\ UNCHANGED <<selectedLevel, searchTerm, targetGame, favorites, words, quiz,
                 write, pinyin, sentence, speed, match, interval, ev, hist,
                 hunter, loading, data, flashcardIndex>>

\* After the crash no handler runs.
NextFlash ==
  \/ OpenFlashcard
  \/ FlashcardNext
  \/ FlashcardPrev
  \/ FlashcardToggleFavorite
  \/ ~FlashcardCrashed /\ FlashcardBack
  \/ ~FlashcardCrashed /\ \E term \in SearchTerms : SetSearchTerm(term)
  \/ ~FlashcardCrashed /\ \E level \in {"1", "favorites"} : HandleLevelSelect(level)
  \/ HandleBack
  \/ \E w \in StarWords : ListToggleFavorite(w)

SpecFlash == InitMenu /\ [][NextFlash]_vars

(***************************************************************************)
(* Speed Challenge alone, started from the dashboard of the HSK level.     *)
(***************************************************************************)
NextSpeed ==
  \/ \E ws \in SpeedLists : SpeedStart(ws)
  \/ SpeedTick
  \/ \E i \in 0..3 : SpeedHandleAnswer(i)
  \/ ExitToList

SpecSpeed == Init /\ [][NextSpeed]_vars

(***************************************************************************)
(* Sentence-Fill started from the setup screen of a large HSK level: the   *)
(* level has more eligible words than the setup screen's largest count.    *)
(* The shuffles are followed in list order and reversed, and each question *)
(* takes its distractors in list order.                                    *)
(***************************************************************************)
MaxLevelWords == 21

\* The large level: word 6, which has no example, and MaxLevelWords words
\* with an example that holds their headword.
LargeLevel == <<6>> \o [i \in 1..MaxLevelWords |-> 7 + i]

\* The setup screen of Sentence-Fill on the large level, no search term.
InitLarge ==
  /\ viewMode = "game_setup"
  /\ selectedLevel = "1"
  /\ searchTerm = <<>>
  /\ targetGame = Some("sentence")
  /\ favorites = <<>>
  /\ words = <<>>
  /\ quiz = Off
  /\ write = Off
  /\ pinyin = Off
  /\ sentence = Off
  /\ speed = Off
  /\ match = Off
  /\ interval = FALSE
  /\ ev = NoEv
  /\ hist = NoHist
  /\ hunter = Off
  /\ loading = FALSE
  /\ data = LargeLevel
  /\ flashcardIndex = 0

\* The question of a word as the useEffect([words]) of SentenceFillIn builds
\* it, the distractors being the first three other words of the list.
SentenceQuestionListed(ws, word) ==
  LET rawExample == Trim(FirstSegment(SheetExample(word), "|"))
  IN  [word |-> word,
       maskedSentence |-> ReplaceAll(rawExample, Hanzi(word), Blank),
       originalSentence |-> rawExample,
       options |-> <<word>> \o
         Slice(SelectSeq(ws, LAMBDA w : WordId(w) # WordId(word)), 3)]

\* The question lists of the useEffect([words]): the valid words, shuffled,
\* .slice(0, 10), one question each.
SentenceQuestionsListed(ws) ==
  {[i \in 1..Len(sh) |-> SentenceQuestionListed(ws, sh[i])] :
     sh \in {Slice(x, SentenceMaxQuestions) :
               x \in Arrangements(SentenceValidWords(ws))}}

\* App.startGameWithCount(count) for Sentence-Fill on the level, where
\* currentWords is data[selectedLevel], and the mount of SentenceFillIn.
LargeStartGameWithCount(count) ==
  /\ viewMode = "game_setup"
  /\ targetGame = Some("sentence")
  /\ LET avail == SetupWords("sentence", data)
     IN  /\ count # Null => Len(avail) >= Val(count)
         /\ \E sh \in Arrangements(avail) :
              LET gameWords == IF count = Null THEN sh ELSE Slice(sh, Val(count))
              IN  /\ words' = gameWords
                  /\ \E qs \in SentenceQuestionsListed(gameWords) :
                       sentence' = [questions |-> qs, currentIndex |-> 0,
                                    selectedOption |-> Null, isCorrect |-> Null,
                                    isFinished |-> FALSE, score |-> 0,
                                    correctWords |-> <<>>, wrongWords |-> <<>>,
                                    timer |-> Null]
  /\ viewMode' = "sentence"
  /\ ev' = NoEv
  /\ hist' = NoHist
  /\ UNCHANGED <<selectedLevel, searchTerm, targetGame, favorites, quiz, write,
                 pinyin, speed, match, interval, hunter, loading, data,
                 flashcardIndex>>

NextLarge ==
  \/ \E count \in SetupCounts : LargeStartGameWithCount(count)
  \/ \E i \in 0..3 : SentenceHandleAnswer(i)
  \/ SentenceTimeout

SpecLarge == InitLarge /\ [][NextLarge]_vars

(***************************************************************************)
(* Properties.                                                             *)
(***************************************************************************)
GameModes == {"quiz", "write", "pinyin", "sentence", "speed", "match"}

\* The state of the component of a mode.
GameState(g) ==
  CASE g = "quiz" -> quiz
    [] g = "write" -> write
    [] g = "pinyin" -> pinyin
    [] g = "sentence" -> sentence
    [] g = "speed" -> speed
    [] g = "match" -> match

\* The mode shows its result summary.
Finished(g) ==
  CASE g = "speed" -> speed.isGameOver
    [] g = "match" -> match.levelComplete
    [] OTHER -> GameState(g).isFinished

\* C1, as the specification states it: in every mode, once the engine is
\* Finished, no event inside the session (the mode stays mounted) takes it
\* out of Finished.  Stated for the favourites level, where a favourite
\* toggle on the result screen of Pinyin-reverse refutes it.
C1_FinishedIsTerminal ==
  [][\A g \in GameModes :
       (viewMode = g /\ viewMode' = g /\ Finished(g)) => Finished(g)']_vars

\* A Pinyin-reverse session of the favourites level stands on its result
\* summary with every favourite answered.
C1_Witness ==
  /\ viewMode = "pinyin"
  /\ selectedLevel = "favorites"
  /\ pinyin.isFinished
  /\ Len(pinyin.correctWords) + Len(pinyin.wrongWords) = Len(favorites)

AnswerModes == {"quiz", "write", "pinyin", "sentence"}

\* The target word of the current round of an answer mode.
RoundTarget(g, st) ==
  IF g = "sentence" THEN st.questions[st.currentIndex + 1].word
  ELSE st.quizSet[st.currentIndex + 1]

\* The score the mode reports.
ReportedScore(g, st) ==
  IF g \in {"quiz", "sentence"} THEN st.score ELSE Len(st.correctWords)

C2_Step(g) ==
  LET before == GameState(g)
      after == GameState(g)'
  IN  (viewMode = g /\ viewMode' = g) =>
        /\ before.timer # Null =>
             /\ after.correctWords = before.correctWords
             /\ after.wrongWords = before.wrongWords
             /\ ReportedScore(g, after) = ReportedScore(g, before)
        /\ (before.timer = Null /\ after.timer # Null) =>
             \/ /\ after.correctWords = Append(before.correctWords, RoundTarget(g, before))
                /\ after.wrongWords = before.wrongWords
             \/ /\ after.wrongWords = Append(before.wrongWords, RoundTarget(g, before))
                /\ after.correctWords = before.correctWords
        /\ hist'.accepted <= 1

\* C2: in Quiz, Write, Pinyin-reverse and Sentence-Fill, while the delay of
\* an accepted answer is pending no step changes the score or either result
\* list, at most one answer is accepted per round, and the step that accepts
\* an answer appends the round's target to exactly one of the two lists.
C2_RoundsNeverOverlap == [][\A g \in AnswerModes : C2_Step(g)]_vars

\* The second round of a Quiz has been answered, one round right and one
\* wrong, and its delay is pending.
C2_Witness ==
  /\ viewMode = "quiz"
  /\ quiz.timer # Null
  /\ hist.answers = 2
  /\ Len(quiz.correctWords) = 1
  /\ Len(quiz.wrongWords) = 1

\* The preferred meanings of a word, as a set.
PreferredMeanings(w) ==
  IF TranslationsThai(w) # <<>> THEN Range(TranslationsThai(w))
  ELSE Range(Translations(w))

\* C3: an answer accepted by Quiz or Speed Challenge is scored correct iff
\* the selected displayed string is one of the target's preferred meanings,
\* whichever string was sampled for the target's own option.
C3_PreferredMeaningCorrect ==
  (ev.type = "answer" /\ ev.game \in {"quiz", "speed"}) =>
    /\ ev.correct <=> ev.selected \in PreferredMeanings(ev.target)
    /\ ev.game = "quiz" => quiz.isCorrect = Some(ev.correct)

\* Quiz accepted "ab" for word 1 although "abab" was sampled for its own
\* option: "ab" is the string displayed for word 2.
C3_Witness ==
  /\ ev.type = "answer"
  /\ ev.game = "quiz"
  /\ ev.target = 1
  /\ ev.selected = <<"a", "b">>
  /\ ev.correct
  /\ <<"a", "b", "a", "b">> \in Range(quiz.options)

\* Case folding and trimming, stated directly: the part of s between its
\* leading and trailing blanks, every capital replaced by its small letter.
FoldedChar(c) ==
  CASE c = "A" -> "a"
    [] c = "B" -> "b"
    [] c \in {"S", "z"} -> "s"
    [] OTHER -> c

Normalized(s) ==
  LET n == Len(s)
      cores == {p \in (1..(n + 1)) \X (0..n) :
                  /\ p[2] >= p[1] - 1
                  /\ \A k \in 1..(p[1] - 1) : s[k] = " "
                  /\ \A k \in (p[2] + 1)..n : s[k] = " "
                  /\ p[2] >= p[1] => (s[p[1]] # " " /\ s[p[2]] # " ")}
      core == CHOOSE p \in cores : TRUE
  IN  [k \in 1..(core[2] - core[1] + 1) |-> FoldedChar(s[core[1] + k - 1])]

\* t occurs in s.
Contains(s, t) ==
  \E i \in 0..Len(s) : \E j \in i..Len(s) : SubSeq(s, i + 1, j) = t

\* The answer rule of Write mode as the specification states it.
WriteAccepts(w, input) ==
  \E m \in Range(TranslationsThai(w)) \cup Range(Translations(w)) :
    \/ Normalized(input) = Normalized(m)
    \/ (Len(Normalized(m)) > 3 /\ Contains(Normalized(input), Normalized(m)))

LastOf(list) == IF list = <<>> THEN Null ELSE Some(list[Len(list)])

\* C5: an answer accepted by Pinyin-reverse or Sentence-Fill is recorded as
\* correct iff the selected option's id equals the target's id; the target
\* goes to the correct list then, and to the wrong list otherwise.
C5_IdEquality ==
  (ev.type = "answer" /\ ev.game \in {"pinyin", "sentence"}) =>
    LET st == GameState(ev.game)
    IN  /\ ev.correct <=> WordId(ev.selected) = WordId(ev.target)
        /\ IF WordId(ev.selected) = WordId(ev.target)
           THEN LastOf(st.correctWords) = Some(ev.target)
           ELSE LastOf(st.wrongWords) = Some(ev.target)

\* Pinyin-reverse recorded word 1 as wrong after the option of word 2, which
\* has the same headword, was selected.
C5_Witness ==
  /\ ev.type = "answer"
  /\ ev.game = "pinyin"
  /\ ev.target = 1
  /\ ev.selected = 2
  /\ Hanzi(ev.selected) = Hanzi(ev.target)
  /\ ~ev.correct
  /\ LastOf(pinyin.wrongWords) = Some(1)

\* The ids of the words of a list.
Ids(list) == {WordId(list[i]) : i \in 1..Len(list)}

\* C6: a Quiz on n words is Finished exactly when n rounds were answered and
\* the last delay has passed; the reported total is n; at Finished every
\* session word was the target of exactly one round, the score is the number
\* of correct rounds, and the two deduplicated lists together hold exactly
\* the ids of the session words.
C6_QuizPlaysEveryWordOnce ==
  viewMode = "quiz" =>
    LET n == Len(words)
        played == quiz.correctWords \o quiz.wrongWords
    IN  /\ Len(quiz.quizSet) = n
        /\ hist.answers <= n
        /\ quiz.isFinished <=> (hist.answers = n /\ quiz.timer = Null)
        /\ quiz.isFinished =>
             /\ Len(played) = n
             /\ \A i \in 1..Len(words) :
                  Cardinality({k \in 1..Len(played) : played[k] = words[i]}) = 1
             /\ quiz.score = Len(quiz.correctWords)
             /\ Ids(Unique(quiz.correctWords)) \cup Ids(Unique(quiz.wrongWords))
                  = Ids(words)

\* A Quiz on three words is Finished with two rounds right and one wrong.
C6_Witness ==
  /\ viewMode = "quiz"
  /\ quiz.isFinished
  /\ Len(words) = 3
  /\ quiz.score = 2
  /\ Len(quiz.wrongWords) = 1

\* C7: a Speed Challenge in which no answer was submitted is Running after
\* each of the first 59 ticks and Finished after the 60th, with score 0 and
\* both result lists empty.
C7_SixtyTicks ==
  (viewMode = "speed" /\ hist.answers = 0) =>
    /\ hist.ticks <= 60
    /\ hist.ticks < 60 => ~speed.isGameOver
    /\ hist.ticks = 60 =>
         /\ speed.isGameOver
         /\ speed.score = 0
         /\ speed.correctWords = <<>>
         /\ speed.wrongWords = <<>>

\* The 60th tick of a session without answers has fired.
C7_Witness ==
  /\ viewMode = "speed"
  /\ hist.answers = 0
  /\ hist.ticks = 60
  /\ speed.isGameOver
  /\ speed.currentWord # Null

\* A step in which Speed Challenge accepts an answer.
SpeedAnswerStep ==
  /\ viewMode = "speed"
  /\ viewMode' = "speed"
  /\ hist'.answers = hist.answers + 1

\* C8, as the specification states it: every answer accepted by Speed
\* Challenge, right or wrong, is followed at once by a new round.
C8_EveryAnswerNewRound ==
  [][SpeedAnswerStep => speed'.round = speed.round + 1]_vars

\* C8, as the code has it: a correct answer is followed at once by a new
\* round; an incorrect answer leaves the target and the options in place, so
\* that the same round is answered again.
C8_CorrectAnswerNewRound ==
  [][SpeedAnswerStep =>
       IF ev'.correct
       THEN /\ speed'.round = speed.round + 1
            /\ speed'.currentWord # Null
            /\ Val(speed'.currentWord) \in Range(words)
            /\ \E i \in 1..Len(speed'.options) :
                 speed'.options[i] \in PreferredMeanings(Val(speed'.currentWord))
       ELSE /\ speed'.round = speed.round
            /\ speed'.currentWord = speed.currentWord
            /\ speed'.options = speed.options]_vars

\* The first round of a Speed Challenge was answered twice, wrongly.
C8_Witness ==
  /\ viewMode = "speed"
  /\ hist.answers = 2
  /\ speed.round = 1
  /\ Len(speed.wrongWords) = 2
  /\ speed.wrongWords[1] = speed.wrongWords[2]

\* C9: the countdown interval of Speed Challenge is active only while the
\* mode is mounted and Running, so no tick fires after the countdown reached
\* zero or after the mode was left.
C9_TimerCancelled ==
  /\ interval => (viewMode = "speed" /\ ~speed.isGameOver)
  /\ hist.ticks <= SpeedSeconds

\* Speed Challenge was left while Running, after some ticks, and the
\* interval is off.
C9_Witness ==
  /\ viewMode = "list"
  /\ hist.ticks > 0
  /\ hist.ticks < SpeedSeconds
  /\ ~interval

\* The cards that are face-up and not matched.
FaceUp(mg) ==
  {i \in 1..Len(mg.cards) : mg.cards[i].isFlipped /\ ~mg.cards[i].isMatched}

\* C10: in Match at most two cards are face-up and unmatched; while two
\* flipped cards await resolution the only change is their resolution, and a
\* card is turned face-up only if it was face-down and unmatched and fewer
\* than two cards were pending.
C10_TwoCardsFaceUp ==
  [][/\ viewMode' = "match" => Cardinality(FaceUp(match')) <= 2
     /\ (viewMode = "match" /\ viewMode' = "match") =>
          /\ Len(match.flippedCards) >= 2 => match'.flippedCards = <<>>
          /\ Len(match'.flippedCards) <= 2
          /\ \A i \in 1..Len(match.cards) :
               (match'.cards[i].isFlipped /\ ~match.cards[i].isFlipped) =>
                 /\ ~match.cards[i].isMatched
                 /\ Len(match.flippedCards) < 2
                 /\ match'.flippedCards = Append(match.flippedCards, match.cards[i])]_vars

\* Two unmatched cards are face-up awaiting resolution, next to a pair that
\* is already matched.
C10_Witness ==
  /\ viewMode = "match"
  /\ Len(match.flippedCards) = 2
  /\ match.timer # Null
  /\ match.matchesFound >= 1
  /\ Cardinality(FaceUp(match)) = 2

(***************************************************************************)
(* C11  Resolving the second card of Match.  When the two pending cards    *)
(* have the same word id, the resolution marks exactly those two cards     *)
(* matched, adds one to the match count and clears the pending pair; when  *)
(* they differ, it turns exactly those two cards face-down, leaves the     *)
(* count and every matched flag as they were and clears the pending pair.  *)
(* The match count always equals half the number of matched cards, and a   *)
(* matched card never becomes unmatched.                                   *)
(***************************************************************************)
MatchedCards(mg) == {i \in 1..Len(mg.cards) : mg.cards[i].isMatched}

\* The positions of the cards that differ between two decks of equal length.
ChangedCards(a, b) == {i \in 1..Len(a) : a[i] # b[i]}

\* A step in which a pending pair is resolved.
C11_ResolutionStep ==
  /\ viewMode = "match" /\ viewMode' = "match"
  /\ Len(match.flippedCards) = 2
  /\ match'.flippedCards = <<>>

C11_Resolution ==
  LET c1 == match.flippedCards[1]
      c2 == match.flippedCards[2]
      pair == {i \in 1..Len(match.cards) : match.cards[i].id \in {c1.id, c2.id}}
  IN  /\ Len(match'.cards) = Len(match.cards)
      /\ Cardinality(pair) = 2
      /\ IF c1.wordId = c2.wordId
         THEN /\ ChangedCards(match.cards, match'.cards) = pair
              /\ \A i \in pair :
                   match'.cards[i] = [match.cards[i] EXCEPT !.isMatched = TRUE]
              /\ match'.matchesFound = match.matchesFound + 1
         ELSE /\ ChangedCards(match.cards, match'.cards) = pair
              /\ \A i \in pair :
                   match'.cards[i] = [match.cards[i] EXCEPT !.isFlipped = FALSE]
              /\ match'.matchesFound = match.matchesFound

\* A matched card stays matched while the game is mounted.
C11_MatchedStays ==
  (viewMode = "match" /\ viewMode' = "match") =>
    \A i \in MatchedCards(match) :
      i <= Len(match'.cards) /\ match'.cards[i].isMatched

C11_CountIsHalf ==
  viewMode = "match" => 2 * match.matchesFound = Cardinality(MatchedCards(match))

C11_MatchResolution ==
  [][/\ C11_ResolutionStep => C11_Resolution
     /\ C11_MatchedStays
     /\ C11_CountIsHalf /\ C11_CountIsHalf']_vars

\* A pair has been found and the deck has been dealt again.
C11_Witness ==
  /\ viewMode = "match"
  /\ match.matchesFound >= 1
  /\ hist.edits >= 1

(***************************************************************************)
(* C12  Match terminates.  For a pool of six words, a Match game in which   *)
(* the player keeps flipping valid pairs eventually has all six pairs       *)
(* matched and then is Finished, after exactly six successful pair         *)
(* resolutions and never more.                                              *)
(***************************************************************************)
AllMatched(mg) == \A i \in 1..Len(mg.cards) : mg.cards[i].isMatched

\* hist.answers counts the successful pair resolutions of the game.
C12_SixResolutions ==
  viewMode = "match" =>
    /\ hist.answers <= 6
    /\ Len(match.cards) = 12
    /\ match.levelComplete => hist.answers = 6 /\ AllMatched(match)
    /\ AllMatched(match) => hist.answers = 6

C12_MatchTerminates ==
  /\ []C12_SixResolutions
  /\ (viewMode = "match") ~> (viewMode = "match" /\ AllMatched(match))
  /\ (viewMode = "match") ~> (viewMode = "match" /\ match.levelComplete)

C12_Witness ==
  /\ viewMode = "match"
  /\ match.levelComplete
  /\ hist.answers = 6

(***************************************************************************)
(* C13  Minimum pool.  For every sequence of level selections, search      *)
(* edits, favourite toggles and setup choices, an engine that is entered   *)
(* or running holds at least its minimum pool: Quiz, Speed Challenge and   *)
(* Pinyin-reverse at least 4 words, Write at least 5, Match at least 6.    *)
(***************************************************************************)
MinimumPool(game) ==
  CASE game \in {"quiz", "speed", "pinyin"} -> 4
    [] game = "write" -> 5
    [] game = "match" -> 6
    [] OTHER -> 0

C13_MinimumPool ==
  viewMode \in MountedGames => Len(words) >= MinimumPool(viewMode)

\* An engine entered through the setup screen of the favourites level.
C13_Witness ==
  /\ viewMode \in {"quiz", "speed"}
  /\ selectedLevel = "favorites"
  /\ searchTerm # <<>>

(***************************************************************************)
(* C14  Distractors.  In Quiz, Speed Challenge, Pinyin-reverse and         *)
(* Sentence-Fill the distractors of a round never include a word with the  *)
(* target's id, are pairwise distinct words of the pool, and number at     *)
(* most min(3, |pool| - 1).                                                *)
(***************************************************************************)
DistractorRule(ds, pool, target) ==
  /\ \A i \in 1..Len(ds) :
       WordId(ds[i]) # WordId(target) /\ ds[i] \in Range(pool)
  /\ \A i, j \in 1..Len(ds) : i # j => ds[i] # ds[j]
  /\ Len(ds) <= Min(3, Len(pool) - 1)

\* Every list the sampling of a round can return obeys the rule.
SamplesObey(pool, target) ==
  \A ds \in Distractors(pool, target) : DistractorRule(ds, pool, target)

\* The option words shown besides the target.
OtherOptions(options, target) == SelectSeq(options, LAMBDA o : o # target)

C14_Distractors ==
  /\ (viewMode = "quiz" /\ CurrentOf(quiz.quizSet, quiz.currentIndex) # Null) =>
       /\ SamplesObey(words, Val(CurrentOf(quiz.quizSet, quiz.currentIndex)))
       /\ Len(quiz.options) <= 1 + Min(3, Len(words) - 1)
  /\ (viewMode = "speed" /\ speed.currentWord # Null) =>
       /\ SamplesObey(words, Val(speed.currentWord))
       /\ Len(speed.options) <= 1 + Min(3, Len(words) - 1)
  /\ (viewMode = "pinyin" /\ CurrentOf(pinyin.quizSet, pinyin.currentIndex) # Null) =>
       LET target == Val(CurrentOf(pinyin.quizSet, pinyin.currentIndex))
       IN  /\ SamplesObey(words, target)
           /\ DistractorRule(OtherOptions(pinyin.options, target), words, target)
           /\ Len(OtherOptions(pinyin.options, target)) = Len(pinyin.options) - 1
  /\ viewMode = "sentence" =>
       \A k \in 1..Len(sentence.questions) :
         LET q == sentence.questions[k]
         IN  /\ SamplesObey(words, q.word)
             /\ DistractorRule(OtherOptions(q.options, q.word), words, q.word)
             /\ Len(OtherOptions(q.options, q.word)) = Len(q.options) - 1

\* A round on a pool of more than four words: three distractors of six.
C14_Witness ==
  /\ viewMode = "pinyin"
  /\ Len(words) > 4
  /\ Len(pinyin.options) = 4

(***************************************************************************)
(* C15  Quiz options.  Every Quiz round on a pool of at least 4 words      *)
(* presents exactly 4 option strings, of which exactly one is evaluated as *)
(* correct and three as incorrect, whatever meanings are sampled.          *)
(***************************************************************************)
\* The positions of the options that Quiz evaluates as correct for target.
CorrectOptions(options, target) ==
  {i \in 1..Len(options) : QuizCorrect(target, options[i])}

C15_ExactlyOneCorrect ==
  (/\ viewMode = "quiz"
   /\ Len(words) >= 4
   /\ CurrentOf(quiz.quizSet, quiz.currentIndex) # Null) =>
    LET target == Val(CurrentOf(quiz.quizSet, quiz.currentIndex))
    IN  /\ Len(quiz.options) = 4
        /\ Cardinality(CorrectOptions(quiz.options, target)) = 1
        /\ Cardinality(1..Len(quiz.options) \ CorrectOptions(quiz.options, target)) = 3

\* A round for word 1 that shows the meaning "ab" of word 2, which is also a
\* preferred meaning of word 1.
C15_Witness ==
  /\ viewMode = "quiz"
  /\ Len(words) >= 4
  /\ CurrentOf(quiz.quizSet, quiz.currentIndex) = Some(1)
  /\ Len(quiz.options) = 4
  /\ Cardinality(CorrectOptions(quiz.options, 1)) = 2

(***************************************************************************)
(* C16  Sentence-Fill eligibility.  A word whose example text does not     *)
(* contain its own headword, whether the example is empty or not, is never *)
(* the target of a Sentence-Fill round.                                    *)
(***************************************************************************)
C16_TargetsHaveHeadword ==
  viewMode = "sentence" =>
    \A k \in 1..Len(sentence.questions) :
      Contains(SheetExample(sentence.questions[k].word),
               Hanzi(sentence.questions[k].word))

\* Sentence-Fill entered from a level that holds words with an example
\* without their headword and a word without an example.
C16_Witness ==
  /\ viewMode = "sentence"
  /\ Len(sentence.questions) > 0
  /\ \E w \in Range(CurrentWords(viewMode, selectedLevel, searchTerm, favorites)) :
       SheetExample(w) # <<>> /\ ~Contains(SheetExample(w), Hanzi(w))
  /\ \E w \in Range(CurrentWords(viewMode, selectedLevel, searchTerm, favorites)) :
       SheetExample(w) = <<>>

(***************************************************************************)
(* C17  Sentence-Fill questions.  A word is a Sentence-Fill target only if *)
(* the first delimited segment of its example contains the headword, and   *)
(* the masked sentence is that first segment with every occurrence of the  *)
(* headword replaced by the placeholder; so every question shows at least  *)
(* one blank and no occurrence of the headword.                            *)
(***************************************************************************)
\* The text before the first "|" of an example, without surrounding blanks.
FirstExample(w) == Trim(FirstSegment(SheetExample(w), "|"))

C17_Question(q) ==
  /\ Contains(FirstExample(q.word), Hanzi(q.word))
  /\ q.maskedSentence = ReplaceAll(FirstExample(q.word), Hanzi(q.word), Blank)
  /\ Contains(q.maskedSentence, <<"_____">>)
  /\ ~Contains(q.maskedSentence, Hanzi(q.word))

C17_MaskedFirstSegment ==
  viewMode = "sentence" =>
    \A k \in 1..Len(sentence.questions) : C17_Question(sentence.questions[k])

\* The question of word 2, whose headword occurs in the second segment of
\* its example only: the sentence shown is "q", without a blank.
C17_Witness ==
  /\ viewMode = "sentence"
  /\ \E k \in 1..Len(sentence.questions) :
       /\ sentence.questions[k].word = 2
       /\ sentence.questions[k].maskedSentence = <<"q">>

(***************************************************************************)
(* C18  Sentence-Fill without eligible words.  When Sentence-Fill is       *)
(* started with zero eligible words, it shows the 'not enough data' state, *)
(* distinct from Finished, from which the user can go back; it never stays *)
(* in a loading state and never shows a result summary.                    *)
(***************************************************************************)
C18_NotEnoughData ==
  (viewMode = "sentence" /\ Len(sentence.questions) = 0) =>
    /\ SentenceNotEnoughData
    /\ ~SentenceLoading
    /\ ~sentence.isFinished

\* Sentence-Fill entered from the favourites level, whose four starred
\* words all have an example and none an example with its headword.
C18_Witness ==
  /\ viewMode = "sentence"
  /\ selectedLevel = "favorites"
  /\ Len(favorites) = 4
  /\ Len(sentence.questions) = 0

(***************************************************************************)
(* C19  Result report.  Each list of the report holds no two words with    *)
(* the same id and exactly the ids of the accumulated list it is made      *)
(* from, ordered by first occurrence.                                       *)
(***************************************************************************)
\* The position of the first word of list with the id of w.
FirstOccurrence(list, w) ==
  CHOOSE i \in 1..Len(list) :
    /\ WordId(list[i]) = WordId(w)
    /\ \A j \in 1..(i - 1) : WordId(list[j]) # WordId(w)

Deduplicated(reported, list) ==
  /\ \A i, j \in 1..Len(reported) :
       i # j => WordId(reported[i]) # WordId(reported[j])
  /\ Ids(reported) = Ids(list)
  /\ \A i, j \in 1..Len(reported) :
       i < j => FirstOccurrence(list, reported[i]) < FirstOccurrence(list, reported[j])

C19_ReportDeduplicated ==
  ev.type = "summary" =>
    /\ Deduplicated(ev.report.uniqueCorrect, ev.correctWords)
    /\ Deduplicated(ev.report.uniqueWrong, ev.wrongWords)

\* Word 1 answered correctly, then word 2, then word 1 again.
C19_Witness ==
  /\ ev.type = "summary"
  /\ ev.correctWords = <<1, 2, 1>>
  /\ ev.report.uniqueCorrect = <<1, 2>>

(***************************************************************************)
(* C20  Deduplication is per list.  A word answered correctly in one Speed *)
(* Challenge round and incorrectly in another is reported once under       *)
(* mastered and once under needs-review.                                   *)
(***************************************************************************)
\* The number of entries of list with the id of w.
Occurrences(list, w) ==
  Cardinality({i \in 1..Len(list) : WordId(list[i]) = WordId(w)})

C20_ReportedInBothLists ==
  (viewMode = "speed" /\ speed.isGameOver) =>
    LET report == GameSummary(speed.correctWords, speed.wrongWords)
    IN  \A w \in Range(speed.correctWords) \cap Range(speed.wrongWords) :
          /\ Occurrences(report.uniqueCorrect, w) = 1
          /\ Occurrences(report.uniqueWrong, w) = 1

\* The game is over with one word in both result lists: two answers were
\* given, one correct and one wrong, and the second round asks for the word
\* of the first again.
C20_Witness ==
  /\ viewMode = "speed"
  /\ speed.isGameOver
  /\ speed.round = 2
  /\ speed.currentWord # Null
  /\ speed.correctWords = <<Val(speed.currentWord)>>
  /\ speed.wrongWords = <<Val(speed.currentWord)>>


(***************************************************************************)
(* C21..C24: the header search.                                            *)
(***************************************************************************)
\* The pool the header search filters: the starred words on the favourites
\* level, the level's words otherwise.
SearchPool ==
  IF selectedLevel = "favorites" THEN FavWords(favorites) ELSE AllWords

SearchResult == FilterWords(SearchPool, searchTerm)

RECURSIVE IsSubsequence(_, _)
IsSubsequence(s, t) ==
  IF s = <<>> THEN TRUE
  ELSE IF t = <<>> THEN FALSE
  ELSE IF Head(s) = Head(t) THEN IsSubsequence(Tail(s), Tail(t))
  ELSE IsSubsequence(s, Tail(t))

\* C21: searching with the empty term returns the pool unchanged, and for
\* every term the result is a subsequence of the pool in the pool's order: no
\* word is added, duplicated or reordered.
C21_SearchIsSubsequence ==
  /\ searchTerm = <<>> => SearchResult = SearchPool
  /\ IsSubsequence(SearchResult, SearchPool)

\* A non-empty term that keeps two or more words of the pool and drops others.
C21_Witness ==
  /\ searchTerm # <<>>
  /\ Len(SearchResult) >= 2
  /\ Len(SearchResult) < Len(SearchPool)


Folded(s) == [i \in 1..Len(s) |-> FoldedChar(s[i])]

\* The match of a word as the search contract states it: the term, compared
\* without regard to case, is a substring of one of the word's fields.
TermInField(field, term) == Contains(Folded(field), Folded(term))

ContractMatches(w, term) ==
  \/ TermInField(Hanzi(w), term)
  \/ Traditional(w) # <<>> /\ TermInField(Traditional(w), term)
  \/ TermInField(Pinyin(w), term)
  \/ TermInField([i \in 1..Len(Pinyin(w)) |-> StripTone(Pinyin(w)[i])], term)
  \/ \E i \in 1..Len(Translations(w)) : TermInField(Translations(w)[i], term)
  \/ \E i \in 1..Len(TranslationsThai(w)) :
       TermInField(TranslationsThai(w)[i], term)

\* C22: for a non-empty term the search returns exactly the words for which
\* the term, compared case-insensitively, is a substring of the headword, the
\* traditional form, the romanization as written or with its tone marks
\* stripped, or one of the meanings or secondary meanings.
C22_ExactFieldMatch ==
  searchTerm # <<>> =>
    SearchResult =
      SelectSeq(SearchPool, LAMBDA w : ContractMatches(w, searchTerm))

\* The headword of word 7 has been typed as it is written, and word 7 is in
\* the pool but not in the result.
C22_Witness ==
  /\ searchTerm = Hanzi(7)
  /\ 7 \in Range(SearchPool)
  /\ 7 \notin Range(SearchResult)


\* The words whose romanization is two tone-marked syllables separated by a
\* blank, written without tone marks and without the blank, and with tone
\* numbers instead of the marks.
ToneFreeTerms(w) ==
  IF Pinyin(w) = <<"n", "i1", " ", "h", "a1", "o">>
  THEN {<<"n", "i", "h", "a", "o">>, <<"n", "i", "3", "h", "a", "o", "3">>}
  ELSE {}

\* C23: tone-insensitive search: a word whose romanization is two tone-marked
\* syllables separated by a blank is matched by its unspaced toneless form
\* and by its tone-number form.
C23_ToneInsensitive ==
  \A w \in Range(SearchPool) :
    searchTerm \in ToneFreeTerms(w) => w \in Range(SearchResult)

\* The unspaced toneless form of word 5 is the search term, word 5 is in the
\* pool and is not returned.
C23_Witness ==
  /\ searchTerm = <<"n", "i", "h", "a", "o">>
  /\ 5 \in Range(SearchPool)
  /\ 5 \notin Range(SearchResult)


Prefixes(t) == {SubSeq(t, 1, n) : n \in 0..Len(t)}

\* C24: the search is monotonic under narrowing: for every prefix of the
\* term, the blank-ended prefixes and the empty prefix included, every word
\* returned for the term is also returned for the prefix.
C24_PrefixMonotonic ==
  \A p \in Prefixes(searchTerm) :
    Range(SearchResult) \subseteq Range(FilterWords(SearchPool, p))

\* A word is returned for a term of three characters and not for the term's
\* first two characters.
C24_Witness ==
  /\ Len(searchTerm) = 3
  /\ \E w \in Range(SearchResult) :
       w \notin Range(FilterWords(SearchPool, SubSeq(searchTerm, 1, 2)))


(***************************************************************************)
(* C25..C30: Vocab Hunter.                                                 *)
(***************************************************************************)
\* A scan has just ended: its recognition result, and the mode, quest target
\* and pool it was started with.
Scanned == viewMode = "hunter" /\ ev.type = "scanned"

ExploreScanned == Scanned /\ ev.mode = "explore" /\ ev.detectedTexts # <<>>

\* The ideographs of a string, in order.
CleanForm(s) == SelectSeq(s, LAMBDA c : c \in {"W", "X", "Y", "Z", "T", "q"})

ExactHit(w, text) ==
  \/ CleanForm(Hanzi(w)) = CleanForm(text)
  \/ Traditional(w) # <<>> /\ CleanForm(Traditional(w)) = CleanForm(text)

\* A substring hit among the headwords of two or more characters as written;
\* C26 is about the length the fallback tests.
SubstringHit(w, text) ==
  /\ Contains(CleanForm(text), CleanForm(Hanzi(w)))
  /\ Len(Hanzi(w)) >= 2

\* The pairs of a fragment position and a pool position that hit.
ExactPairs(pool, texts) ==
  {p \in (1..Len(texts)) \X (1..Len(pool)) :
     ExactHit(pool[p[2]], texts[p[1]])}

SubstringPairs(pool, texts) ==
  {p \in (1..Len(texts)) \X (1..Len(pool)) :
     SubstringHit(pool[p[2]], texts[p[1]])}

\* The word of the first pair: fragment order, then pool order.
FirstHit(pool, pairs) ==
  LET first == CHOOSE p \in pairs :
                 \A q \in pairs : p[1] < q[1] \/ (p[1] = q[1] /\ p[2] <= q[2])
  IN  pool[first[2]]

ExploreExpected(pool, texts) ==
  LET exact == ExactPairs(pool, texts)
      substring == SubstringPairs(pool, texts)
  IN  IF exact # {} THEN Some(FirstHit(pool, exact))
      ELSE IF substring # {} THEN Some(FirstHit(pool, substring))
      ELSE Null

\* C25: in Explore mode an exact match on any fragment takes priority over
\* every substring match on any fragment; within each pass the fragments are
\* tried in recognition order and, for a fragment, the first matching word in
\* pool order is returned.
C25_ExplorePriority ==
  ExploreScanned =>
    hunter.foundWord = ExploreExpected(ev.allWords, ev.detectedTexts)

\* The first fragment contains the headword of word 1 and the second one is
\* the headword of word 3: word 3 is found.
C25_Witness ==
  /\ ExploreScanned
  /\ ev.allWords = AllWords
  /\ ev.detectedTexts = << <<"q", "Y", "Z">>, <<"X", "!">> >>
  /\ hunter.foundWord = Some(3)


\* The scan that has just ended found its word in the substring fallback.
FallbackFound ==
  /\ ExploreScanned
  /\ hunter.foundWord # Null
  /\ ExactPairs(ev.allWords, ev.detectedTexts) = {}

\* C26: in Explore mode the substring fallback only returns a word whose
\* clean headword has two or more ideographs and is a substring of some clean
\* fragment; a word whose clean headword is empty or a single ideograph is
\* never returned by the fallback.
C26_FallbackLength ==
  FallbackFound =>
    LET clean == CleanForm(Hanzi(Val(hunter.foundWord)))
    IN  /\ Len(clean) >= 2
        /\ \E i \in 1..Len(ev.detectedTexts) :
             Contains(CleanForm(ev.detectedTexts[i]), clean)

\* The fallback has returned word 7, whose headword is a Latin letter and one
\* ideograph.
C26_Witness ==
  /\ FallbackFound
  /\ hunter.foundWord = Some(7)
  /\ Len(CleanForm(Hanzi(7))) = 1


\* Some clean fragment equals or contains the clean headword of w.
FragmentHolds(texts, w) ==
  \E i \in 1..Len(texts) :
    Contains(CleanForm(texts[i]), CleanForm(Hanzi(w)))

\* C27: in Quest mode a scan succeeds iff the clean form of some recognized
\* fragment equals or contains the clean headword of the quest target, and on
\* success the found word is the quest target itself.
C27_QuestSuccess ==
  Scanned /\ hunter.mode = "quest" /\ hunter.questTarget # Null =>
    /\ hunter.foundWord # Null <=>
         FragmentHolds(ev.detectedTexts, Val(hunter.questTarget))
    /\ hunter.foundWord # Null => hunter.foundWord = hunter.questTarget

\* A scan started in Quest mode has ended in Quest mode with a found word
\* that is not the quest target, whose headword no fragment holds.
C27_Witness ==
  /\ Scanned
  /\ ev.mode = "quest"
  /\ hunter.mode = "quest"
  /\ hunter.questTarget # Null
  /\ hunter.foundWord # Null
  /\ hunter.foundWord # hunter.questTarget
  /\ ~FragmentHolds(ev.detectedTexts, Val(hunter.questTarget))


\* The step in which a scan started in Quest mode ends without success.
QuestScanFails ==
  /\ hunter.mounted
  /\ hunter.scan # Null
  /\ Val(hunter.scan).mode = "quest"
  /\ Val(hunter.scan).questTarget # Null
  /\ ev'.type = "scanned"
  /\ ev'.detectedTexts # <<>>
  /\ ~FragmentHolds(ev'.detectedTexts, Val(Val(hunter.scan).questTarget))

\* C28: when a Quest scan fails, the secondary "found X, but needed Y" check
\* changes nothing but the feedback message: the quest target is unchanged,
\* no found word and no culture tip is set, no culture-tip request is issued
\* and scanning returns to false.
C28_FailedQuestFrame ==
  [][QuestScanFails =>
       /\ hunter'.error \in {"other_word", "not_detected"}
       /\ hunter' = [hunter EXCEPT !.error = hunter'.error,
                                   !.scanning = FALSE, !.scan = Null]
       /\ hunter'.foundWord = Null
       /\ hunter'.tips = hunter.tips
       /\ UNCHANGED <<viewMode, selectedLevel, searchTerm, favorites, words>>
    ]_vars

\* A failed Quest scan has ended with the message that names another word of
\* the pool.
C28_Witness ==
  /\ Scanned
  /\ ev.mode = "quest"
  /\ ev.questTarget # Null
  /\ hunter.error = "other_word"
  /\ hunter.foundWord = Null
  /\ ~hunter.scanning


\* The step in which a culture-tip request fails.
TipRequestFails == hunter.mounted /\ hunter.tips # <<>> /\ ev'.type = "tipFailed"

\* C29: when a scan has matched a word and the culture-tip request that
\* follows fails, the match remains: the found word stays set, no error
\* message replaces it, the tip stays absent and the tip-loading flag returns
\* to false.
C29_TipFailureKeepsMatch ==
  [][TipRequestFails =>
       /\ hunter'.foundWord = hunter.foundWord
       /\ hunter'.error = hunter.error
       /\ hunter'.cultureTip = hunter.cultureTip
       /\ hunter'.loadingTip = FALSE
       /\ hunter'.scanning = hunter.scanning
       /\ hunter'.questTarget = hunter.questTarget
       /\ hunter'.mode = hunter.mode
    ]_vars

\* The tip request of the word on display has failed: the word is still
\* found, without tip, without error message, and no tip is loading.
C29_Witness ==
  /\ viewMode = "hunter"
  /\ ev.type = "tipFailed"
  /\ hunter.foundWord = Some(ev.word)
  /\ hunter.cultureTip = Null
  /\ hunter.error = "none"
  /\ ~hunter.loadingTip


\* A scan is under way: the scan button is disabled.
ScanRunning == viewMode = "hunter" /\ hunter.scanning

\* The scan that has just ended had nothing to match: the recognition result
\* is the empty list, or no word of the pool matches a fragment.
NothingDetected == Scanned /\ ev.detectedTexts = <<>>

NoPoolWordMatches ==
  /\ ExploreScanned
  /\ ExactPairs(ev.allWords, ev.detectedTexts) = {}
  /\ SubstringPairs(ev.allWords, ev.detectedTexts) = {}

\* The scan has ended with a message, without found word, and the scan
\* button is enabled again.
EndedWithMessage(message) ==
  /\ hunter.error = message
  /\ hunter.foundWord = Null
  /\ ~hunter.scanning

Toggled == ev.type = "toggled"

\* The list without the id, the order of the other ids kept.
Others(list, id) == SelectSeq(list, LAMBDA x : x # id)

DuplicateFree(list) ==
  \A i \in 1..Len(list) : \A j \in 1..Len(list) :
    list[i] = list[j] => i = j

\* C31: toggleFavorite on a word with an id adds the id to the favourites if
\* it is absent and removes it if it is present, and leaves the membership
\* and the relative order of every other id unchanged; the favourites, which
\* start duplicate-free, never hold an id twice.
C31_ToggleIsSetToggle ==
  /\ DuplicateFree(favorites)
  /\ Toggled /\ ev.word # NoId =>
       /\ WordId(ev.word) \in Range(favorites) <=>
            WordId(ev.word) \notin Range(ev.before)
       /\ Others(favorites, WordId(ev.word)) =
            Others(ev.before, WordId(ev.word))

\* C31: two consecutive toggles of the same word restore the original
\* membership.
C31_TwoTogglesRestore ==
  [][Toggled /\ ev'.type = "toggled" /\ ev'.word = ev.word /\ ev.word # NoId
       => Range(favorites') = Range(ev.before)]_vars

\* C31: toggleFavorite is a set toggle keyed by the word id, and two toggles
\* of the same word in a row cancel.
C31_Toggle == C31_TwoTogglesRestore /\ []C31_ToggleIsSetToggle

\* An id in the middle of three favourites has been removed.
C31_Witness ==
  /\ Toggled
  /\ Len(ev.before) = 3
  /\ ev.before[2] = WordId(ev.word)
  /\ favorites = <<ev.before[1], ev.before[3]>>

\* C32: toggleFavorite on a word that has no id leaves the favourites and
\* their stored copy unchanged.
C32_NoIdNoToggle ==
  Toggled /\ WordId(ev.word) = NoId =>
    /\ favorites = ev.before
    /\ ev.stored = favorites
    /\ NoId \notin Range(favorites)

\* A word without id has been toggled while two ids were starred.
C32_Witness ==
  /\ Toggled
  /\ WordId(ev.word) = NoId
  /\ Len(favorites) = 2

\* The fetch of the word source has failed.
FetchFailed == ev.type = "fetchFailed"

\* C33: after any failure of the word-source fetch (network error, non-OK
\* status, malformed JSON) the load has resolved to an empty collection: the
\* app has left its loading state and has no level with words.
C33_FailureLoadsEmpty ==
  FetchFailed => ~loading /\ data = <<>>

\* The fetch has failed in a build whose catch block rethrows, and the app is
\* still in its loading state.
C33_Witness ==
  /\ FetchFailed
  /\ ev.variant = "rethrows"
  /\ loading

\* C34: every word an item is mapped to has a non-empty list of meanings
\* (translations), also for an item with neither meaning field, and the
\* preferred-meaning pick on it yields a defined string.
C34_MeaningsNonEmpty ==
  /\ ev.type \in {"mapped", "picked"} => ev.word.translations # <<>>
  /\ ev.type = "picked" => ev.pick # Undefined

\* An item with neither meaning field has been mapped to a word with no
\* meanings, and the pick on it is undefined.
C34_Witness ==
  /\ ev.type = "picked"
  /\ ev.item.english = <<>>
  /\ ev.item.thai_meanings = <<>>
  /\ ev.word.translations = <<>>
  /\ ev.pick = Undefined

\* A session started through the setup screen is being shown, not yet
\* answered.
SessionStarted == ev.type = "started" /\ viewMode \in SetupGames

\* The sizes a session drawn from e eligible words may have: min(N, e) for a
\* requested N, or e for 'all'.
SessionSizes(e) == {Min(n, e) : n \in {5, 10, 20}} \cup {e}

\* C35: the words of a practice session are a duplicate-free selection from
\* the filtered list the dashboard displayed when the mode was chosen, of
\* size min(N, eligible words) or of all eligible words.
C35_SessionFromShownList ==
  SessionStarted =>
    /\ Range(words) \subseteq Range(ev.shown)
    /\ DuplicateFree(words)
    /\ Len(words) \in SessionSizes(Len(SetupWords(viewMode, ev.shown)))

\* A session of an HSK level, chosen while the search term narrowed the
\* displayed list, holds a word that was not displayed.
C35_Witness ==
  /\ SessionStarted
  /\ selectedLevel = "1"
  /\ searchTerm # <<>>
  /\ \E i \in 1..Len(words) : words[i] \notin Range(ev.shown)

\* C36: a found word shown while the Hunter's mode is Quest, displayed as
\* 'Mission Accomplished', is the current quest target, also after a switch
\* between Explore and Quest or a new quest while a scan was in flight.
C36_FoundIsQuestTarget ==
  viewMode = "hunter" /\ hunter.mode = "quest" /\ hunter.foundWord # Null =>
    hunter.foundWord = hunter.questTarget

\* A scan started in Explore has ended after the switch to Quest: the word it
\* found is shown in Quest mode and is not the quest target.
C36_Witness ==
  /\ viewMode = "hunter"
  /\ ev.type = "scanned"
  /\ ev.mode = "explore"
  /\ hunter.mode = "quest"
  /\ hunter.questTarget # Null
  /\ hunter.foundWord # Null
  /\ hunter.foundWord # hunter.questTarget

\* The culture tip of the result panel is displayed.
TipDisplayed ==
  /\ viewMode = "hunter"
  /\ hunter.foundWord # Null
  /\ ~hunter.loadingTip
  /\ hunter.cultureTip # Null

\* C37: a culture tip that is displayed was generated for the found word on
\* display, and while a found word is on display loadingTip is true exactly
\* while the request for that word is outstanding, also when an earlier
\* request resolves after a reset and another find.
C37_TipOfFoundWord ==
  /\ TipDisplayed => Val(hunter.cultureTip) = Val(hunter.foundWord)
  /\ viewMode = "hunter" /\ hunter.foundWord # Null =>
       (hunter.loadingTip <=> Val(hunter.foundWord) \in Range(hunter.tips))

\* The tip requested for an earlier found word has resolved after a reset and
\* another find: it is displayed with the new found word, whose own request
\* is still outstanding.
C37_Witness ==
  /\ TipDisplayed
  /\ ev.type = "tip"
  /\ Val(hunter.cultureTip) = ev.word
  /\ Val(hunter.foundWord) # ev.word
  /\ Val(hunter.foundWord) \in Range(hunter.tips)

\* C38: whenever the flashcard view displays a non-empty word list, the
\* flashcard index is at least 0 and less than the number of listed words.
C38_IndexInRange ==
  viewMode = "flashcard" /\ FlashcardWords # <<>> =>
    0 <= flashcardIndex /\ flashcardIndex < Len(FlashcardWords)

\* The flashcard view of the favourites shows a list that has shrunk to or
\* below the index.
C38_Witness ==
  /\ viewMode = "flashcard"
  /\ selectedLevel = "favorites"
  /\ FlashcardWords # <<>>
  /\ flashcardIndex >= Len(FlashcardWords)

\* The step of an answer Speed Challenge accepts.
SpeedAnswered ==
  /\ viewMode = "speed"
  /\ ev'.type = "answer"
  /\ ev'.game = "speed"
  /\ hist'.answers = hist.answers + 1

\* The score of Speed Challenge is a non-negative multiple of 5.
C39_ScoreMultipleOfFive ==
  viewMode = "speed" => speed.score >= 0 /\ speed.score % 5 = 0

\* A correct answer adds 10, an incorrect one subtracts 5 but not below 0.
C39_AnswerScores ==
  SpeedAnswered =>
    speed'.score = IF ev'.correct THEN speed.score + 10
                   ELSE IF speed.score >= 5 THEN speed.score - 5 ELSE 0

\* Once the countdown has reached zero nothing changes the score or the
\* result lists while Speed Challenge is shown.
C39_OverIsFrozen ==
  viewMode = "speed" /\ speed.isGameOver /\ viewMode' = "speed" =>
    /\ speed'.score = speed.score
    /\ speed'.correctWords = speed.correctWords
    /\ speed'.wrongWords = speed.wrongWords

\* C39: in Speed Challenge the score is always a non-negative multiple of 5:
\* a correct answer adds exactly 10, an incorrect answer subtracts 5 but
\* never takes the score below 0, and an answer after the countdown has
\* reached zero changes neither the score nor the result lists.
C39_SpeedScore ==
  /\ []C39_ScoreMultipleOfFive
  /\ [][C39_AnswerScores]_vars
  /\ [][C39_OverIsFrozen]_vars

\* A wrong answer given at score 0 has been recorded and has left the score
\* at 0.
C39_Witness ==
  /\ viewMode = "speed"
  /\ ev.type = "answer"
  /\ ev.game = "speed"
  /\ ~ev.correct
  /\ speed.score = 0
  /\ speed.wrongWords # <<>>

\* A Sentence-Fill session has reached its result report.
SentenceFinished == viewMode = "sentence" /\ sentence.isFinished

\* C40: a Sentence-Fill session started with a requested size N (5, 10, 20
\* or all) that the eligible words cover, so that the session list holds N
\* words, plays exactly N rounds before it is finished and reports
\* total = N; the rounds played in any session equal the reported total.
C40_SentenceRounds ==
  SentenceFinished =>
    /\ hist.answers = Len(words)
    /\ Len(sentence.questions) = Len(words)
    /\ hist.answers = Len(sentence.questions)

\* A session requested with 20 words has finished after 10 rounds and
\* reports a total of 10.
C40_Witness ==
  /\ SentenceFinished
  /\ Len(words) = 20
  /\ hist.answers = 10
  /\ Len(sentence.questions) = 10

====
